---------------------------- MODULE Spec2Model ----------------------------
(***************************************************************************)
(* Model of the comparison engine of the Odin Dev Toolkit                  *)
(* (Odin.DiffChecker and the formatters it calls, src/unnamed/part_001).   *)
(*                                                                         *)
(* A text is a sequence of tokens; the token "\n" is the line break.  A    *)
(* line is the sequence of tokens between two line breaks, so the empty    *)
(* string '' is the empty sequence.  JavaScript arrays are 0-based: an     *)
(* array is a sequence s, and the element at JavaScript index i is         *)
(* s[i + 1].                                                               *)
(***************************************************************************)
EXTENDS Integers, Sequences, FiniteSets, TLC

VARIABLES
    call,       \* the entry point that was invoked
    pc,         \* position of the invocation
    leftText,   \* _lineDiff: first argument
    rightText,  \* _lineDiff: second argument
    a,          \* left line array
    b,          \* right line array
    my,         \* locals of _myers
    ld,         \* locals of _lineDiff
    leftInput,  \* compare: first argument
    rightInput, \* compare: second argument
    mode,       \* compare: third argument
    cmp,        \* locals of compare
    result,     \* the object compare returns
    fmt,        \* locals of _formatXml
    other       \* a second activation of compare, not running

cmpVars == <<leftInput, rightInput, mode, cmp, result>>

vars == <<call, pc, leftText, rightText, a, b, my, ld, cmpVars, fmt, other>>

---------------------------------------------------------------------------
(* Bounds of the inputs.                                                   *)

MaxLines == 3

NL == "\n"

\* The lines the inputs are built from: '', 'x' and 'y'.
LineAlphabet == {<<>>, <<"x">>, <<"y">>}

RECURSIVE SeqsUpTo(_, _)
SeqsUpTo(S, n) ==
    IF n = 0 THEN {<<>>}
    ELSE LET shorter == SeqsUpTo(S, n - 1)
         IN  shorter \cup {Append(s, e) : s \in {t \in shorter : Len(t) = n - 1}, e \in S}

LineArrays == SeqsUpTo(LineAlphabet, MaxLines)

\* The line arrays of the repository's own tests.
TestA == << <<"A">>, <<"B">>, <<"C">>, <<"D">> >>
TestB == << <<"A">>, <<"X">>, <<"B">>, <<"D">> >>
TestLeft == << <<"line1">>, <<"line2">>, <<"line3">> >>
TestRight == << <<"inserted">>, <<"line1">>, <<"line2">>, <<"line3">> >>

TestPairs == {<<TestA, TestB>>, <<TestLeft, TestRight>>}

---------------------------------------------------------------------------
(* String.prototype.split('\n') and Array.prototype.join('\n').            *)

RECURSIVE SplitFrom(_, _, _)
SplitFrom(text, i, cur) ==
    IF i > Len(text) THEN <<cur>>
    ELSE IF text[i] = NL THEN <<cur>> \o SplitFrom(text, i + 1, <<>>)
    ELSE SplitFrom(text, i + 1, Append(cur, text[i]))

SplitLines(text) == SplitFrom(text, 1, <<>>)

RECURSIVE JoinLines(_)
JoinLines(ls) ==
    IF Len(ls) = 0 THEN <<>>
    ELSE IF Len(ls) = 1 THEN ls[1]
    ELSE ls[1] \o <<NL>> \o JoinLines(Tail(ls))

---------------------------------------------------------------------------
(* Odin.DiffChecker._myers                                                 *)

\* x[i] of a JavaScript array or typed array.
At(s, i) == s[i + 1]

Reverse(s) == [i \in 1..Len(s) |-> s[Len(s) + 1 - i]]

NoMyers ==
    [N |-> 0, M |-> 0, MAX |-> 0, offset |-> 0, v |-> <<>>, trace |-> <<>>,
     d |-> 0, k |-> 0, fx |-> 0, fy |-> 0, hit |-> FALSE,
     x |-> 0, y |-> 0, bd |-> 0, lcs |-> <<>>]

\* const v = new Int32Array(vSize).fill(-1); v[offset + 1] = 0;
InitV(MAX) == [i \in 1..(2 * MAX + 1) |-> IF i = MAX + 2 THEN 0 ELSE -1]

MyersEnter(aa, bb) ==
    LET N == Len(aa)
        M == Len(bb)
        MAX == N + M
    IN  [NoMyers EXCEPT !.N = N, !.M = M, !.MAX = MAX, !.offset = MAX,
                        !.v = IF N = 0 \/ M = 0 THEN <<>> ELSE InitV(MAX)]

\* if (MAX === 0) return []; if (N === 0 || M === 0) return [];
MyersTrivial(f) == f.MAX = 0 \/ f.N = 0 \/ f.M = 0

\* Fault variant of MoveDown: a tie between the two neighbouring diagonals
\* goes down instead of right (<= for <).
MoveDownOnTie(v, offset, d, k) ==
    k = -d \/ (k # d /\ At(v, offset + k - 1) <= At(v, offset + k + 1))

\* k === -d || (k !== d && v[offset + k - 1] < v[offset + k + 1])
MoveDown(v, offset, d, k) ==
    k = -d \/ (k # d /\ At(v, offset + k - 1) < At(v, offset + k + 1))

\* Fault variant of Snake: no diagonal move is taken.
SnakeNone(aa, bb, x, y) == x

\* while (x < N && y < M && a[x] === b[y]) { x++; y++; }
RECURSIVE Snake(_, _, _, _)
Snake(aa, bb, x, y) ==
    IF x < Len(aa) /\ y < Len(bb) /\ At(aa, x) = At(bb, y)
    THEN Snake(aa, bb, x + 1, y + 1)
    ELSE x

\* Fault variant of ReachedEnd: stops when either sequence is exhausted.
ReachedEitherEnd(x, y, N, M) == x >= N \/ y >= M

\* if (x >= N && y >= M) break outer;
ReachedEnd(x, y, N, M) == x >= N /\ y >= M

\* for (let k = -d; k <= d; k += 2) { ... }
RECURSIVE KLoop(_, _, _, _, _)
KLoop(aa, bb, f, v, k) ==
    IF k > f.d THEN [v |-> v, hit |-> FALSE, k |-> k, x |-> f.fx, y |-> f.fy]
    ELSE LET x0 == IF MoveDown(v, f.offset, f.d, k)
                   THEN At(v, f.offset + k + 1)
                   ELSE At(v, f.offset + k - 1) + 1
             x1 == Snake(aa, bb, x0, x0 - k)
             y1 == x1 - k
             v1 == [v EXCEPT ![f.offset + k + 1] = x1]
         IN  IF ReachedEnd(x1, y1, f.N, f.M)
             THEN [v |-> v1, hit |-> TRUE, k |-> k, x |-> x1, y |-> y1]
             ELSE KLoop(aa, bb, [f EXCEPT !.fx = x1, !.fy = y1], v1, k + 2)

\* Fault variant of ForwardIter: the snapshot is pushed at the end of the
\* loop body, which the break skips.
ForwardIterPushLast(aa, bb, f) ==
    LET r == KLoop(aa, bb, f, f.v, -f.d)
    IN  [f EXCEPT !.trace = IF r.hit THEN f.trace ELSE Append(f.trace, r.v),
                  !.v = r.v, !.hit = r.hit, !.k = r.k, !.fx = r.x, !.fy = r.y,
                  !.d = IF r.hit THEN f.d ELSE f.d + 1]

\* One iteration of: for (let d = 0; d <= MAX; d++) { trace.push(v.slice()); ... }
ForwardIter(aa, bb, f) ==
    LET r == KLoop(aa, bb, f, f.v, -f.d)
    IN  [f EXCEPT !.trace = Append(f.trace, f.v),
                  !.v = r.v, !.hit = r.hit, !.k = r.k, !.fx = r.x, !.fy = r.y,
                  !.d = IF r.hit THEN f.d ELSE f.d + 1]

ForwardDone(f) == f.hit \/ f.d > f.MAX

\* Fault variant of BacktrackEnter: the loop starts one snapshot too low.
BacktrackEnterSkipLast(f) ==
    [f EXCEPT !.x = f.N, !.y = f.M, !.bd = Len(f.trace) - 2]

\* let x = N; let y = M; for (let d = trace.length - 1; ...
BacktrackEnter(f) ==
    [f EXCEPT !.x = f.N, !.y = f.M, !.bd = Len(f.trace) - 1]

\* Fault variant of Diagonal: only the last pair of a diagonal run is kept.
DiagonalFirstOnly(x, y, prevX, prevY, lcs) ==
    IF x > prevX /\ y > prevY
    THEN Append(lcs, [ai |-> x - 1, bi |-> y - 1])
    ELSE lcs

\* while (x > prevX && y > prevY) { x--; y--; lcs.push({ ai: x, bi: y }); }
RECURSIVE Diagonal(_, _, _, _, _)
Diagonal(x, y, prevX, prevY, lcs) ==
    IF x > prevX /\ y > prevY
    THEN Diagonal(x - 1, y - 1, prevX, prevY, Append(lcs, [ai |-> x - 1, bi |-> y - 1]))
    ELSE lcs

\* One iteration of: for (let d = trace.length - 1; d >= 0; d--) { ... }
BacktrackIter(f) ==
    LET vPrev == At(f.trace, f.bd)
        k == f.x - f.y
        prevK == IF MoveDown(vPrev, f.offset, f.bd, k) THEN k + 1 ELSE k - 1
        prevX == At(vPrev, f.offset + prevK)
        prevY == prevX - prevK
    IN  [f EXCEPT !.lcs = Diagonal(f.x, f.y, prevX, prevY, f.lcs),
                  !.x = prevX, !.y = prevY, !.bd = f.bd - 1]

BacktrackDone(f) == f.bd < 0

\* Fault variant of MyersReturn: the pairs are returned as collected.
MyersReturnUnreversed(f) == f

\* lcs.reverse(); return lcs;
MyersReturn(f) == [f EXCEPT !.lcs = Reverse(f.lcs)]

RECURSIVE ForwardAll(_, _, _)
ForwardAll(aa, bb, f) ==
    IF ForwardDone(f) THEN f ELSE ForwardAll(aa, bb, ForwardIter(aa, bb, f))

RECURSIVE BacktrackAll(_)
BacktrackAll(f) ==
    IF BacktrackDone(f) THEN f ELSE BacktrackAll(BacktrackIter(f))

\* The whole of _myers(a, b): the list it returns.
Myers(aa, bb) ==
    LET f == MyersEnter(aa, bb)
    IN  IF MyersTrivial(f) THEN <<>>
        ELSE MyersReturn(BacktrackAll(BacktrackEnter(ForwardAll(aa, bb, f)))).lcs

---------------------------------------------------------------------------
(* Odin.DiffChecker._lineDiff                                              *)

NoLineDiff ==
    [lines |-> <<>>, stats |-> [added |-> 0, removed |-> 0, changed |-> 0],
     lineNum |-> 0, ai |-> 0, bi |-> 0, li |-> 0]

\* while (ai < a.length || bi < b.length)
ClassifyDone(aa, bb, c) == ~(c.ai < Len(aa) \/ c.bi < Len(bb))

\* Fault variant of AtMatch: only the left cursor is compared with the pair.
AtMatchLeftOnly(lcs, c) ==
    c.li < Len(lcs) /\ c.ai = At(lcs, c.li).ai

\* li < lcs.length && ai === lcs[li].ai && bi === lcs[li].bi
AtMatch(lcs, c) ==
    c.li < Len(lcs) /\ c.ai = At(lcs, c.li).ai /\ c.bi = At(lcs, c.li).bi

\* ai < a.length && (li >= lcs.length || ai < lcs[li].ai)
\*   && (li >= lcs.length || bi >= lcs[li].bi || a[ai] !== b[bi])
LeftUnmatched(aa, bb, lcs, c) ==
    /\ c.ai < Len(aa)
    /\ (c.li >= Len(lcs) \/ c.ai < At(lcs, c.li).ai)
    /\ (c.li >= Len(lcs) \/ c.bi >= At(lcs, c.li).bi \/ At(aa, c.ai) # At(bb, c.bi))

\* Fault variant of Emit: the entry carries the number of the left line.
EmitSourceLine(c, type, left, right) ==
    [c EXCEPT !.lineNum = c.lineNum + 1,
              !.lines = Append(c.lines, [type |-> type, left |-> left,
                                         right |-> right, line |-> c.ai + 1])]

\* lineNum++; lines.push({ type, left, right, line: lineNum });
Emit(c, type, left, right) ==
    [c EXCEPT !.lineNum = c.lineNum + 1,
              !.lines = Append(c.lines, [type |-> type, left |-> left,
                                         right |-> right, line |-> c.lineNum + 1])]

\* Fault variant of EmitSame: a matched pair is reported as a change.
EmitSameAsChanged(aa, bb, c) ==
    [Emit(c, "changed", At(aa, c.ai), At(bb, c.bi))
        EXCEPT !.stats.changed = c.stats.changed + 1,
               !.ai = c.ai + 1, !.bi = c.bi + 1, !.li = c.li + 1]

EmitSame(aa, bb, c) ==
    [Emit(c, "same", At(aa, c.ai), At(bb, c.bi))
        EXCEPT !.ai = c.ai + 1, !.bi = c.bi + 1, !.li = c.li + 1]

\* Fault variant of EmitChanged: the right cursor is not advanced.
EmitChangedLeftOnly(aa, bb, c) ==
    [Emit(c, "changed", At(aa, c.ai), At(bb, c.bi))
        EXCEPT !.stats.changed = c.stats.changed + 1, !.ai = c.ai + 1]

EmitChanged(aa, bb, c) ==
    [Emit(c, "changed", At(aa, c.ai), At(bb, c.bi))
        EXCEPT !.stats.changed = c.stats.changed + 1, !.ai = c.ai + 1, !.bi = c.bi + 1]

\* Fault variant of EmitRemoved: the left cursor is not advanced.
EmitRemovedStuck(aa, c) ==
    [Emit(c, "removed", At(aa, c.ai), <<>>) EXCEPT !.stats.removed = c.stats.removed + 1]

\* Fault variant of EmitRemoved: the entry is not counted.
EmitRemovedUncounted(aa, c) ==
    [Emit(c, "removed", At(aa, c.ai), <<>>) EXCEPT !.ai = c.ai + 1]

EmitRemoved(aa, c) ==
    [Emit(c, "removed", At(aa, c.ai), <<>>)
        EXCEPT !.stats.removed = c.stats.removed + 1, !.ai = c.ai + 1]

\* Fault variant of EmitAdded: the entry is not counted.
EmitAddedUncounted(bb, c) ==
    [Emit(c, "added", <<>>, At(bb, c.bi)) EXCEPT !.bi = c.bi + 1]

EmitAdded(bb, c) ==
    [Emit(c, "added", <<>>, At(bb, c.bi))
        EXCEPT !.stats.added = c.stats.added + 1, !.bi = c.bi + 1]

\* Fault variant of ClassifyGap: unmatched lines are never paired.
ClassifyGapUnpaired(aa, bb, lcs, c) ==
    LET nextLcsAi == IF c.li < Len(lcs) THEN At(lcs, c.li).ai ELSE Len(aa)
    IN  IF c.ai < nextLcsAi THEN EmitRemoved(aa, c) ELSE EmitAdded(bb, c)

\* The body of the second branch: pair up removals and additions.
ClassifyGap(aa, bb, lcs, c) ==
    LET nextLcsAi == IF c.li < Len(lcs) THEN At(lcs, c.li).ai ELSE Len(aa)
        nextLcsBi == IF c.li < Len(lcs) THEN At(lcs, c.li).bi ELSE Len(bb)
    IN  IF c.ai < nextLcsAi /\ c.bi < nextLcsBi THEN EmitChanged(aa, bb, c)
        ELSE IF c.ai < nextLcsAi THEN EmitRemoved(aa, c)
        ELSE EmitAdded(bb, c)

\* Fault variant of ClassifyIter: without the second branch, right lines
\* are emitted as added whenever any are left.
ClassifyIterAddedFirst(aa, bb, lcs, c) ==
    IF AtMatch(lcs, c) THEN EmitSame(aa, bb, c)
    ELSE IF c.bi < Len(bb) THEN EmitAdded(bb, c)
    ELSE EmitRemoved(aa, c)

\* One iteration of the cursor loop.
ClassifyIter(aa, bb, lcs, c) ==
    IF AtMatch(lcs, c) THEN EmitSame(aa, bb, c)
    ELSE IF LeftUnmatched(aa, bb, lcs, c) THEN ClassifyGap(aa, bb, lcs, c)
    ELSE IF c.bi < Len(bb) THEN EmitAdded(bb, c)
    ELSE EmitRemoved(aa, c)

RECURSIVE ClassifyAll(_, _, _, _)
ClassifyAll(aa, bb, lcs, c) ==
    IF ClassifyDone(aa, bb, c) THEN c
    ELSE ClassifyAll(aa, bb, lcs, ClassifyIter(aa, bb, lcs, c))

\* The whole of _lineDiff(leftText, rightText): { lines, stats }.
LineDiff(lt, rt) ==
    LET aa == SplitLines(lt)
        bb == SplitLines(rt)
        c == ClassifyAll(aa, bb, Myers(aa, bb), NoLineDiff)
    IN  [lines |-> c.lines, stats |-> c.stats]

---------------------------------------------------------------------------
(* Characters.  A text of a document is a sequence of characters, each a   *)
(* one-character string.                                                   *)

QUOTE == "\""

\* Math.max
Max(m, n) == IF m >= n THEN m ELSE n

Whitespace == {" ", NL, "\t", "\r"}

\* String.prototype.trim
RECURSIVE TrimStart(_)
TrimStart(t) ==
    IF Len(t) > 0 /\ t[1] \in Whitespace THEN TrimStart(Tail(t)) ELSE t

RECURSIVE TrimEnd(_)
TrimEnd(t) ==
    IF Len(t) > 0 /\ t[Len(t)] \in Whitespace
    THEN TrimEnd(SubSeq(t, 1, Len(t) - 1)) ELSE t

Trim(t) == TrimEnd(TrimStart(t))

DigitChars == <<"0", "1", "2", "3", "4", "5", "6", "7", "8", "9">>

IsDigit(c) == \E i \in 1..10 : DigitChars[i] = c

DigitValue(c) == (CHOOSE i \in 1..10 : DigitChars[i] = c) - 1

\* The decimal numeral of a natural number.
RECURSIVE Numeral(_)
Numeral(n) ==
    IF n < 10 THEN <<DigitChars[n + 1]>>
    ELSE Append(Numeral(n \div 10), DigitChars[(n % 10) + 1])

\* The number a decimal numeral denotes.
RECURSIVE NumeralValue(_)
NumeralValue(ds) ==
    IF Len(ds) = 0 THEN 0
    ELSE 10 * NumeralValue(SubSeq(ds, 1, Len(ds) - 1)) + DigitValue(ds[Len(ds)])

\* UTF-16 code units of the characters that occur in property names.
CharCode(c) ==
    CASE IsDigit(c) -> 48 + DigitValue(c)
      [] c = "_" -> 95
      [] c = "a" -> 97
      [] c = "b" -> 98
      [] c = "c" -> 99
      [] c = "o" -> 111
      [] c = "p" -> 112
      [] c = "r" -> 114
      [] c = "t" -> 116

\* s < t for strings: comparison by code units, the order of
\* Array.prototype.sort() without a comparator.
RECURSIVE StringLess(_, _)
StringLess(s, t) ==
    IF Len(t) = 0 THEN FALSE
    ELSE IF Len(s) = 0 THEN TRUE
    ELSE IF s[1] = t[1] THEN StringLess(Tail(s), Tail(t))
    ELSE CharCode(s[1]) < CharCode(t[1])

---------------------------------------------------------------------------
(* JavaScript values and objects.  A value is a pair <<tag, payload>>:     *)
(*   <<"num", n>>, <<"null", 0>>, <<"str", characters>>,                   *)
(*   <<"arr", sequence of values>>,                                        *)
(*   <<"obj", sequence of <<key, value>> in property enumeration order>>.  *)

Num(n) == <<"num", n>>
Null == <<"null", 0>>
Str(cs) == <<"str", cs>>
Arr(items) == <<"arr", items>>
Obj(props) == <<"obj", props>>

ProtoKey == <<"_", "_", "p", "r", "o", "t", "o", "_", "_">>

\* An integer index: a canonical numeral, enumerated before all other keys.
IsArrayIndex(key) ==
    /\ Len(key) > 0
    /\ \A i \in 1..Len(key) : IsDigit(key[i])
    /\ (Len(key) > 1 => key[1] # "0")

HasProp(props, key) == \E i \in 1..Len(props) : props[i][1] = key

PropGet(props, key) == props[CHOOSE i \in 1..Len(props) : props[i][1] = key][2]

InsertAt(s, i, e) == SubSeq(s, 1, i - 1) \o <<e>> \o SubSeq(s, i, Len(s))

\* CreateDataProperty on an ordinary object: an existing key keeps its place;
\* a new integer index goes among the integer indices in ascending numeric
\* order, any other new key to the end.
PropDefine(props, key, val) ==
    IF HasProp(props, key)
    THEN [i \in 1..Len(props) |->
            IF props[i][1] = key THEN <<key, val>> ELSE props[i]]
    ELSE IF IsArrayIndex(key)
    THEN LET before == {i \in 1..Len(props) :
                           /\ IsArrayIndex(props[i][1])
                           /\ NumeralValue(props[i][1]) < NumeralValue(key)}
         IN  InsertAt(props, Cardinality(before) + 1, <<key, val>>)
    ELSE Append(props, <<key, val>>)

\* acc[key] = val on an object created by {}: the key __proto__ reaches the
\* accessor of Object.prototype and creates no own property.
PropAssign(props, key, val) ==
    IF key = ProtoKey THEN props ELSE PropDefine(props, key, val)

\* Object.keys
ObjectKeys(props) == [i \in 1..Len(props) |-> props[i][1]]

\* Array.prototype.sort() on strings.
RECURSIVE InsertSorted(_, _)
InsertSorted(sorted, key) ==
    IF Len(sorted) = 0 THEN <<key>>
    ELSE IF StringLess(key, sorted[1]) THEN <<key>> \o sorted
    ELSE <<sorted[1]>> \o InsertSorted(Tail(sorted), key)

\* Fault variant of SortStrings: the keys are put in reverse enumeration order.
KeysReversed(keys) == Reverse(keys)

\* Fault variant of SortStrings: the keys stay in enumeration order.
KeysAsEnumerated(keys) == keys

RECURSIVE SortStrings(_)
SortStrings(keys) ==
    IF Len(keys) = 0 THEN <<>>
    ELSE InsertSorted(SortStrings(SubSeq(keys, 1, Len(keys) - 1)), keys[Len(keys)])

---------------------------------------------------------------------------
(* JSON.parse.  A parse step returns [ok, val, next, msg]: the value and   *)
(* the index after it, or the message of the SyntaxError it throws.        *)

ParseOk(val, next) == [ok |-> TRUE, val |-> val, next |-> next, msg |-> <<>>]

ParseFail(t, i) ==
    [ok |-> FALSE, val |-> Null, next |-> i,
     msg |-> IF i > Len(t) THEN <<"Unexpected end of JSON input">>
             ELSE <<"Unexpected token ", t[i], " in JSON at position ">> \o Numeral(i - 1)]

RECURSIVE SkipWhitespace(_, _)
SkipWhitespace(t, i) ==
    IF i <= Len(t) /\ t[i] \in Whitespace THEN SkipWhitespace(t, i + 1) ELSE i

\* The index of the quote that closes the string opened before index i.
RECURSIVE StringEnd(_, _)
StringEnd(t, i) ==
    IF i > Len(t) \/ t[i] = QUOTE \/ t[i] = NL THEN i ELSE StringEnd(t, i + 1)

ParseString(t, i) ==
    LET e == StringEnd(t, i + 1)
    IN  IF e > Len(t) \/ t[e] # QUOTE THEN ParseFail(t, e)
        ELSE ParseOk(Str(SubSeq(t, i + 1, e - 1)), e + 1)

RECURSIVE NumberEnd(_, _)
NumberEnd(t, i) ==
    IF i <= Len(t) /\ IsDigit(t[i]) THEN NumberEnd(t, i + 1) ELSE i

ParseNumber(t, i) ==
    LET e == NumberEnd(t, i)
    IN  IF t[i] = "0" /\ e > i + 1 THEN ParseFail(t, i + 1)
        ELSE ParseOk(Num(NumeralValue(SubSeq(t, i, e - 1))), e)

NullLiteral == <<"n", "u", "l", "l">>

RECURSIVE ParseValue(_, _)
RECURSIVE ParseElements(_, _, _)
RECURSIVE ParseMembers(_, _, _)

ParseValue(t, i0) ==
    LET i == SkipWhitespace(t, i0)
    IN  IF i > Len(t) THEN ParseFail(t, i)
        ELSE IF t[i] = "{" THEN
            LET j == SkipWhitespace(t, i + 1)
            IN  IF j <= Len(t) /\ t[j] = "}" THEN ParseOk(Obj(<<>>), j + 1)
                ELSE ParseMembers(t, j, <<>>)
        ELSE IF t[i] = "[" THEN
            LET j == SkipWhitespace(t, i + 1)
            IN  IF j <= Len(t) /\ t[j] = "]" THEN ParseOk(Arr(<<>>), j + 1)
                ELSE ParseElements(t, j, <<>>)
        ELSE IF t[i] = QUOTE THEN ParseString(t, i)
        ELSE IF IsDigit(t[i]) THEN ParseNumber(t, i)
        ELSE IF i + 3 <= Len(t) /\ SubSeq(t, i, i + 3) = NullLiteral
             THEN ParseOk(Null, i + 4)
        ELSE ParseFail(t, i)

ParseElements(t, i, items) ==
    LET v == ParseValue(t, i)
    IN  IF ~v.ok THEN v
        ELSE LET e == SkipWhitespace(t, v.next)
                 items1 == Append(items, v.val)
             IN  IF e > Len(t) THEN ParseFail(t, e)
                 ELSE IF t[e] = "]" THEN ParseOk(Arr(items1), e + 1)
                 ELSE IF t[e] = "," THEN ParseElements(t, e + 1, items1)
                 ELSE ParseFail(t, e)

ParseMembers(t, i, props) ==
    IF i > Len(t) \/ t[i] # QUOTE THEN ParseFail(t, i)
    ELSE LET key == ParseString(t, i)
         IN  IF ~key.ok THEN key
             ELSE LET c == SkipWhitespace(t, key.next)
                  IN  IF c > Len(t) \/ t[c] # ":" THEN ParseFail(t, c)
                      ELSE LET v == ParseValue(t, c + 1)
                           IN  IF ~v.ok THEN v
                               ELSE LET e == SkipWhitespace(t, v.next)
                                        props1 == PropDefine(props, key.val[2], v.val)
                                    IN  IF e > Len(t) THEN ParseFail(t, e)
                                        ELSE IF t[e] = "}" THEN ParseOk(Obj(props1), e + 1)
                                        ELSE IF t[e] = ","
                                             THEN ParseMembers(t, SkipWhitespace(t, e + 1), props1)
                                        ELSE ParseFail(t, e)

JsonParse(t) ==
    LET r == ParseValue(t, 1)
    IN  IF ~r.ok THEN r
        ELSE LET e == SkipWhitespace(t, r.next)
             IN  IF e <= Len(t) THEN ParseFail(t, e) ELSE r

---------------------------------------------------------------------------
(* JSON.stringify(value, null, 2)                                          *)

JsonIndent == 2

Indent(depth) == [i \in 1..(JsonIndent * depth) |-> " "]

RECURSIVE Stringify(_, _)
RECURSIVE StringifyItems(_, _)
RECURSIVE StringifyProps(_, _)

Stringify(value, depth) ==
    CASE value[1] = "num" -> Numeral(value[2])
      [] value[1] = "null" -> NullLiteral
      [] value[1] = "str" -> <<QUOTE>> \o value[2] \o <<QUOTE>>
      [] value[1] = "arr" ->
            IF Len(value[2]) = 0 THEN <<"[", "]">>
            ELSE <<"[", NL>> \o StringifyItems(value[2], depth + 1)
                    \o <<NL>> \o Indent(depth) \o <<"]">>
      [] value[1] = "obj" ->
            IF Len(value[2]) = 0 THEN <<"{", "}">>
            ELSE <<"{", NL>> \o StringifyProps(value[2], depth + 1)
                    \o <<NL>> \o Indent(depth) \o <<"}">>

StringifyItems(items, depth) ==
    Indent(depth) \o Stringify(items[1], depth)
        \o (IF Len(items) = 1 THEN <<>>
            ELSE <<",", NL>> \o StringifyItems(Tail(items), depth))

StringifyProps(props, depth) ==
    Indent(depth) \o <<QUOTE>> \o props[1][1] \o <<QUOTE, ":", " ">>
        \o Stringify(props[1][2], depth)
        \o (IF Len(props) = 1 THEN <<>>
            ELSE <<",", NL>> \o StringifyProps(Tail(props), depth))

---------------------------------------------------------------------------
(* Odin.DiffChecker._sortObject and _normalizeJson                         *)

\* Array.isArray(value)
IsArray(value) == value[1] = "arr"

\* value && typeof value === 'object'
IsNonNullObject(value) ==
    /\ ~(value[1] = "null" \/ value = Num(0) \/ value = Str(<<>>))
    /\ value[1] \in {"obj", "arr", "null"}

RECURSIVE SortObject(_)
RECURSIVE ReduceKeys(_, _, _)

\* .reduce((acc, key) => { acc[key] = this._sortObject(value[key]); return acc; }, {})
ReduceKeys(props, keys, acc) ==
    IF Len(keys) = 0 THEN acc
    ELSE ReduceKeys(props, Tail(keys),
                    PropAssign(acc, keys[1], SortObject(PropGet(props, keys[1]))))

SortObject(value) ==
    IF IsArray(value)
    THEN Arr([i \in 1..Len(value[2]) |-> SortObject(value[2][i])])
    ELSE IF IsNonNullObject(value)
    THEN Obj(ReduceKeys(value[2], SortStrings(ObjectKeys(value[2])), <<>>))
    ELSE value

\* The result of a normalizer: the canonical text, or the message of the
\* error it throws.
Returned(text) == [ok |-> TRUE, text |-> text, msg |-> <<>>]
Thrown(msg) == [ok |-> FALSE, text |-> <<>>, msg |-> msg]

NormalizeJson(input) ==
    LET parsed == JsonParse(input)
    IN  IF ~parsed.ok THEN Thrown(parsed.msg)
        ELSE Returned(Stringify(SortObject(parsed.val), 0))

---------------------------------------------------------------------------
(* DOMParser and XMLSerializer.  A parsed document is the sequence of its  *)
(* markup items in document order, each <<kind, characters>> with kind     *)
(* "open", "close", "empty", "text", "comment" or "pi".                    *)

RECURSIVE IndexFrom(_, _, _)
IndexFrom(t, i, c) ==
    IF i > Len(t) \/ t[i] = c THEN i ELSE IndexFrom(t, i + 1, c)

IsXmlName(cs) ==
    /\ Len(cs) > 0
    /\ \A i \in 1..Len(cs) : cs[i] \notin (Whitespace \cup {"<", ">", "/", "!", "?", "="})
    /\ cs[1] # "-" /\ ~IsDigit(cs[1])

AllWhitespace(cs) == \A i \in 1..Len(cs) : cs[i] \in Whitespace

ParserErrorName == <<"parsererror">>

\* The document DOMParser returns for malformed input: a parsererror element
\* whose text reports the place of the error.
ParserErrorDocument(i) ==
    << <<"open", ParserErrorName>>,
       <<"text", <<"error on line 1 at column ">> \o Numeral(i) \o
                 <<":", " ", "not well-formed", NL,
                   "Below is a rendering of the page up to the first error.">> >>,
       <<"close", ParserErrorName>> >>

RECURSIVE XmlScan(_, _, _, _, _)
XmlScan(t, i, stack, items, rootSeen) ==
    IF i > Len(t)
    THEN IF Len(stack) = 0 /\ rootSeen THEN items ELSE ParserErrorDocument(i)
    ELSE IF t[i] = "<" THEN
        LET e == IndexFrom(t, i + 1, ">")
            body == SubSeq(t, i + 1, e - 1)
        IN  IF e > Len(t) \/ Len(body) = 0 THEN ParserErrorDocument(i)
            ELSE IF body[1] = "/" THEN
                IF Len(stack) > 0 /\ stack[Len(stack)] = Tail(body)
                THEN XmlScan(t, e + 1, SubSeq(stack, 1, Len(stack) - 1),
                             Append(items, <<"close", Tail(body)>>), rootSeen)
                ELSE ParserErrorDocument(i)
            ELSE IF body[1] = "?" THEN
                IF Len(body) >= 3 /\ body[Len(body)] = "?"
                THEN XmlScan(t, e + 1, stack,
                             Append(items, <<"pi", SubSeq(body, 2, Len(body) - 1)>>), rootSeen)
                ELSE ParserErrorDocument(i)
            ELSE IF body[1] = "!" THEN
                IF /\ Len(body) >= 5
                   /\ body[2] = "-" /\ body[3] = "-"
                   /\ body[Len(body) - 1] = "-" /\ body[Len(body)] = "-"
                THEN XmlScan(t, e + 1, stack,
                             Append(items, <<"comment", SubSeq(body, 4, Len(body) - 2)>>), rootSeen)
                ELSE ParserErrorDocument(i)
            ELSE IF Len(stack) = 0 /\ rootSeen THEN ParserErrorDocument(i)
            ELSE IF body[Len(body)] = "/" THEN
                IF IsXmlName(SubSeq(body, 1, Len(body) - 1))
                THEN XmlScan(t, e + 1, stack,
                             Append(items, <<"empty", SubSeq(body, 1, Len(body) - 1)>>), TRUE)
                ELSE ParserErrorDocument(i)
            ELSE IF IsXmlName(body)
                 THEN XmlScan(t, e + 1, Append(stack, body),
                              Append(items, <<"open", body>>), TRUE)
            ELSE ParserErrorDocument(i)
    ELSE
        LET e == IndexFrom(t, i, "<")
            chars == SubSeq(t, i, e - 1)
        IN  IF Len(stack) = 0
            THEN IF AllWhitespace(chars) THEN XmlScan(t, e, stack, items, rootSeen)
                 ELSE ParserErrorDocument(i)
            ELSE XmlScan(t, e, stack, Append(items, <<"text", chars>>), rootSeen)

\* parser.parseFromString(input, 'application/xml')
DomParse(input) == XmlScan(input, 1, <<>>, <<>>, FALSE)

\* xmlDoc.querySelector('parsererror')
HasParserError(doc) ==
    \E i \in 1..Len(doc) : doc[i][1] \in {"open", "empty"} /\ doc[i][2] = ParserErrorName

\* parserError.textContent
ParserErrorText(doc) ==
    LET i == CHOOSE j \in 1..Len(doc) :
                 doc[j][1] \in {"open", "empty"} /\ doc[j][2] = ParserErrorName
    IN  IF doc[i][1] = "open" /\ i < Len(doc) /\ doc[i + 1][1] = "text"
        THEN doc[i + 1][2] ELSE <<>>

\* serializer.serializeToString(xmlDoc): an element without children is
\* written as an empty-element tag.
RECURSIVE XmlSerialize(_)
XmlSerialize(doc) ==
    IF Len(doc) = 0 THEN <<>>
    ELSE LET item == doc[1]
         IN  IF item[1] = "open" /\ Len(doc) > 1 /\ doc[2][1] = "close"
             THEN <<"<">> \o item[2] \o <<"/", ">">> \o XmlSerialize(SubSeq(doc, 3, Len(doc)))
             ELSE (CASE item[1] = "open" -> <<"<">> \o item[2] \o <<">">>
                     [] item[1] = "close" -> <<"<", "/">> \o item[2] \o <<">">>
                     [] item[1] = "empty" -> <<"<">> \o item[2] \o <<"/", ">">>
                     [] item[1] = "text" -> item[2]
                     [] item[1] = "comment" -> <<"<", "!", "-", "-">> \o item[2] \o <<"-", "-", ">">>
                     [] item[1] = "pi" -> <<"<", "?">> \o item[2] \o <<"?", ">">>)
                  \o XmlSerialize(Tail(doc))

---------------------------------------------------------------------------
(* Odin.XmlFormatter                                                       *)

\* xml.replace(/>\s+</g, '><')
RECURSIVE CollapseBetweenTags(_, _)
CollapseBetweenTags(t, i) ==
    IF i > Len(t) THEN <<>>
    ELSE IF t[i] = ">"
    THEN LET j == SkipWhitespace(t, i + 1)
         IN  IF j > i + 1 /\ j <= Len(t) /\ t[j] = "<"
             THEN <<">">> \o CollapseBetweenTags(t, j)
             ELSE <<">">> \o CollapseBetweenTags(t, i + 1)
    ELSE <<t[i]>> \o CollapseBetweenTags(t, i + 1)

\* xml.replace(/(>)(<)(\/?)/g, '$1\n$2$3')
RECURSIVE BreakBetweenTags(_, _)
BreakBetweenTags(t, i) ==
    IF i > Len(t) THEN <<>>
    ELSE IF t[i] = ">" /\ i < Len(t) /\ t[i + 1] = "<"
    THEN <<">", NL>> \o BreakBetweenTags(t, i + 1)
    ELSE <<t[i]>> \o BreakBetweenTags(t, i + 1)

\* /^<\/[^>]+>$/.test(node)
IsClosingNode(node) ==
    /\ Len(node) >= 4
    /\ node[1] = "<" /\ node[2] = "/" /\ node[Len(node)] = ">"
    /\ \A i \in 3..(Len(node) - 1) : node[i] # ">"

\* /^<[^!?/][^>]*[^/]>$/.test(node)
IsOpeningNode(node) ==
    /\ Len(node) >= 4
    /\ node[1] = "<" /\ node[2] \notin {"!", "?", "/"}
    /\ \A i \in 3..(Len(node) - 2) : node[i] # ">"
    /\ node[Len(node) - 1] # "/" /\ node[Len(node)] = ">"

\* '  '.repeat(pad)
Pad(pad) == [i \in 1..(2 * pad) |-> " "]

NoIndent == [pad |-> 0, formatted |-> <<>>]

\* One iteration of: for (let node of nodes) { ... }
IndentNodePrintFirst(raw, st) ==
    LET node == Trim(raw)
    IN  IF Len(node) = 0 THEN st
        ELSE LET pad1 == IF IsClosingNode(node) THEN Max(0, st.pad - 1) ELSE st.pad
                 pad2 == IF IsOpeningNode(node) THEN pad1 + 1 ELSE pad1
             IN  [pad |-> pad2, formatted |-> Append(st.formatted, Pad(st.pad) \o node)]

IndentNode(raw, st) ==
    LET node == Trim(raw)
    IN  IF Len(node) = 0 THEN st
        ELSE LET pad1 == IF IsClosingNode(node) THEN Max(0, st.pad - 1) ELSE st.pad
                 pad2 == IF IsOpeningNode(node) THEN pad1 + 1 ELSE pad1
             IN  [pad |-> pad2, formatted |-> Append(st.formatted, Pad(pad1) \o node)]

RECURSIVE IndentAll(_, _)
IndentAll(nodes, st) ==
    IF Len(nodes) = 0 THEN st ELSE IndentAll(Tail(nodes), IndentNode(nodes[1], st))

\* The locals of _formatXml; i counts the nodes the loop has taken.
NoFormat ==
    [input |-> <<>>, minify |-> FALSE, xml |-> <<>>, nodes |-> <<>>, i |-> 0,
     pad |-> 0, formatted |-> <<>>, result |-> <<>>]

\* _formatXml(input, minify)
FormatXml(input, minify) ==
    LET xml == Trim(CollapseBetweenTags(XmlSerialize(DomParse(input)), 1))
    IN  IF minify THEN xml
        ELSE JoinLines(IndentAll(SplitLines(BreakBetweenTags(xml, 1)), NoIndent).formatted)

InvalidXml == <<"Invalid XML">>

\* An error object { message, line, col }, or null.
NoXmlError == [isNull |-> TRUE, message |-> <<>>]
XmlError(message) == [isNull |-> FALSE, message |-> message]

\* _parseError(message).message: message.split('\n')[0] || 'Invalid XML'
ParseErrorMessage(message) ==
    LET first == SplitLines(message)[1]
    IN  IF Len(first) = 0 THEN InvalidXml ELSE first

\* validate(input): valid is true, false or null.
XmlValidate(input) ==
    IF Len(input) = 0 \/ Len(Trim(input)) = 0
    THEN [valid |-> "null", error |-> NoXmlError]
    ELSE LET doc == DomParse(input)
         IN  IF ~HasParserError(doc) THEN [valid |-> "true", error |-> NoXmlError]
             ELSE LET text == ParserErrorText(doc)
                  IN  [valid |-> "false",
                       error |-> XmlError(ParseErrorMessage(
                                    IF Len(text) = 0 THEN InvalidXml ELSE text))]

\* beautify(input) and minify(input): { result, error }, result null on error.
XmlFormatted(input, minify) ==
    LET validation == XmlValidate(input)
    IN  IF validation.valid # "true"
        THEN [isNull |-> TRUE, result |-> <<>>, error |-> validation.error]
        ELSE [isNull |-> FALSE, result |-> FormatXml(input, minify), error |-> NoXmlError]

XmlBeautify(input) == XmlFormatted(input, FALSE)

XmlMinify(input) == XmlFormatted(input, TRUE)

\* error?.message || 'Invalid XML'
MessageOrInvalid(error) ==
    IF error.isNull \/ Len(error.message) = 0 THEN InvalidXml ELSE error.message

\* Odin.DiffChecker._normalizeXml
NormalizeXml(input) ==
    LET validation == XmlValidate(input)
        minified == XmlMinify(input)
        beautified == XmlBeautify(minified.result)
    IN  IF validation.valid # "true" THEN Thrown(MessageOrInvalid(validation.error))
        ELSE IF minified.isNull THEN Thrown(MessageOrInvalid(minified.error))
        ELSE IF beautified.isNull THEN Thrown(MessageOrInvalid(beautified.error))
        ELSE Returned(beautified.result)

---------------------------------------------------------------------------
(* Odin.Utils.escapeHtml and Odin.DiffChecker._renderDiff                  *)

EscapeChar(c) ==
    CASE c = "&" -> "&amp;"
      [] c = "<" -> "&lt;"
      [] c = ">" -> "&gt;"
      [] c = QUOTE -> "&quot;"
      [] OTHER -> c

\* if (!str) return ''; return String(str).replace(...)
EscapeHtml(str) == [i \in 1..Len(str) |-> EscapeChar(str[i])]

RenderRow(row) ==
    <<"<div class=\"diff-row diff-", row.type, "\"><span class=\"diff-ln\">">>
        \o Numeral(row.line)
        \o <<"</span><span class=\"diff-left\">">> \o EscapeHtml(row.left)
        \o <<"</span><span class=\"diff-right\">">> \o EscapeHtml(row.right)
        \o <<"</span></div>">>

\* diff.lines.map(...).join('')
RECURSIVE RenderRows(_)
RenderRows(lines) ==
    IF Len(lines) = 0 THEN <<>> ELSE RenderRow(lines[1]) \o RenderRows(Tail(lines))

RenderDiff(diff) == RenderRows(diff.lines)

---------------------------------------------------------------------------
(* Odin.DiffChecker.compare                                                *)

ZeroStats == [added |-> 0, removed |-> 0, changed |-> 0]

\* The error property of a result: null or a message.
NoError == [isNull |-> TRUE, message |-> <<>>]
ErrorMessage(msg) == [isNull |-> FALSE, message |-> msg]

BothRequired == <<"Both inputs are required">>

\* Fault variant of ErrorResult: the message is dropped from the result.
ErrorResultWithoutMessage(msg) ==
    [equal |-> FALSE, error |-> NoError, html |-> <<>>, stats |-> ZeroStats,
     hasNormalized |-> FALSE, leftNormalized |-> <<>>, rightNormalized |-> <<>>]

\* { equal: false, error, html: '', stats: { added: 0, removed: 0, changed: 0 } }
\* The object has no leftNormalized and no rightNormalized property.
ErrorResult(msg) ==
    [equal |-> FALSE, error |-> ErrorMessage(msg), html |-> <<>>, stats |-> ZeroStats,
     hasNormalized |-> FALSE, leftNormalized |-> <<>>, rightNormalized |-> <<>>]

\* Fault variant of DiffResult: the left text is returned for both sides.
DiffResultLeftTwice(equal, diff, leftNormalized, rightNormalized) ==
    [equal |-> equal, error |-> NoError, html |-> RenderDiff(diff), stats |-> diff.stats,
     hasNormalized |-> TRUE,
     leftNormalized |-> leftNormalized, rightNormalized |-> leftNormalized]

\* { equal, error: null, html, stats, leftNormalized, rightNormalized }
DiffResult(equal, diff, leftNormalized, rightNormalized) ==
    [equal |-> equal, error |-> NoError, html |-> RenderDiff(diff), stats |-> diff.stats,
     hasNormalized |-> TRUE,
     leftNormalized |-> leftNormalized, rightNormalized |-> rightNormalized]

\* No object has been returned yet.
NoResult == ErrorResult(<<>>)

\* The locals of compare; calls lists the sides whose normalizer was invoked.
NoCompare ==
    [calls |-> <<>>, leftNormalized |-> <<>>, rightNormalized |-> <<>>,
     equal |-> FALSE, diff |-> [lines |-> <<>>, stats |-> ZeroStats]]

\* Fault variant of InputMissing: only two blank inputs are rejected.
InputBothMissing(left, right) == Len(Trim(left)) = 0 /\ Len(Trim(right)) = 0

\* !leftInput.trim() || !rightInput.trim()
InputMissing(left, right) == Len(Trim(left)) = 0 \/ Len(Trim(right)) = 0

\* The parameters, locals and return value of one activation of compare.
Activation(left, right, m) ==
    [pc |-> "start", leftInput |-> left, rightInput |-> right, mode |-> m,
     cmp |-> NoCompare, result |-> NoResult]

NoActivation == Activation(<<>>, <<>>, "json")

\* if (mode === 'json') this._normalizeJson(input) else this._normalizeXml(input)
Normalize(m, input) ==
    IF m = "json" THEN NormalizeJson(input) ELSE NormalizeXml(input)

---------------------------------------------------------------------------
(* The diff engine run one loop iteration at a time.                       *)

Init ==
    /\ pc = "start"
    /\ my = NoMyers
    /\ ld = NoLineDiff
    /\ leftInput = <<>> /\ rightInput = <<>> /\ mode = "json"
    /\ cmp = NoCompare /\ result = NoResult
    /\ fmt = NoFormat
    /\ other = NoActivation
    /\ \/ /\ call = "_myers"
          /\ \/ a \in LineArrays /\ b \in LineArrays
             \/ \E p \in TestPairs : a = p[1] /\ b = p[2]
          /\ leftText = <<>> /\ rightText = <<>>
       \/ /\ call = "_lineDiff"
          /\ \E la \in LineArrays \ {<<>>}, lb \in LineArrays \ {<<>>} :
                leftText = JoinLines(la) /\ rightText = JoinLines(lb)
          /\ a = <<>> /\ b = <<>>
       \/ /\ call = "_lineDiff"
          /\ \E p \in TestPairs :
                leftText = JoinLines(p[1]) /\ rightText = JoinLines(p[2])
          /\ a = <<>> /\ b = <<>>

\* const a = leftText.split('\n'); const b = rightText.split('\n');
\* const lcs = this._myers(a, b);
LineDiffEnter ==
    /\ pc = "start" /\ call = "_lineDiff"
    /\ a' = SplitLines(leftText)
    /\ b' = SplitLines(rightText)
    /\ pc' = "myers"
    /\ UNCHANGED <<call, leftText, rightText, my, ld>>
    /\ UNCHANGED <<cmpVars, fmt, other>>

MyersCall ==
    /\ \/ pc = "start" /\ call = "_myers"
       \/ pc = "myers"
    /\ my' = MyersEnter(a, b)
    /\ pc' = IF MyersTrivial(my') THEN "myersReturned" ELSE "forward"
    /\ UNCHANGED <<call, leftText, rightText, a, b, ld>>
    /\ UNCHANGED <<cmpVars, fmt, other>>

ForwardStep ==
    /\ pc = "forward"
    /\ IF ForwardDone(my)
       THEN my' = BacktrackEnter(my) /\ pc' = "backtrack"
       ELSE my' = ForwardIter(a, b, my) /\ pc' = "forward"
    /\ UNCHANGED <<call, leftText, rightText, a, b, ld>>
    /\ UNCHANGED <<cmpVars, fmt, other>>

BacktrackStep ==
    /\ pc = "backtrack"
    /\ IF BacktrackDone(my)
       THEN my' = MyersReturn(my) /\ pc' = "myersReturned"
       ELSE my' = BacktrackIter(my) /\ pc' = "backtrack"
    /\ UNCHANGED <<call, leftText, rightText, a, b, ld>>
    /\ UNCHANGED <<cmpVars, fmt, other>>

\* _myers has returned to _lineDiff: const lines = []; let ai = 0; ...
ClassifyEnter ==
    /\ pc = "myersReturned" /\ call = "_lineDiff"
    /\ ld' = NoLineDiff
    /\ pc' = "classify"
    /\ UNCHANGED <<call, leftText, rightText, a, b, my>>
    /\ UNCHANGED <<cmpVars, fmt, other>>

ClassifyStep ==
    /\ pc = "classify"
    /\ IF ClassifyDone(a, b, ld)
       THEN ld' = ld /\ pc' = "lineDiffReturned"
       ELSE ld' = ClassifyIter(a, b, my.lcs, ld) /\ pc' = "classify"
    /\ UNCHANGED <<call, leftText, rightText, a, b, my>>
    /\ UNCHANGED <<cmpVars, fmt, other>>

Next ==
    \/ LineDiffEnter
    \/ MyersCall
    \/ ForwardStep
    \/ BacktrackStep
    \/ ClassifyEnter
    \/ ClassifyStep

Spec == Init /\ [][Next]_vars

---------------------------------------------------------------------------
(* The documents compare is run on.                                        *)

KeyA == <<"a">>
KeyB == <<"b">>

\* The text of a document with its members in the order they are written;
\* sp is the whitespace put after each colon and comma.
RECURSIVE Write(_, _)
RECURSIVE WriteItems(_, _)
RECURSIVE WriteProps(_, _)

Write(value, sp) ==
    CASE value[1] = "num" -> Numeral(value[2])
      [] value[1] = "null" -> NullLiteral
      [] value[1] = "str" -> <<QUOTE>> \o value[2] \o <<QUOTE>>
      [] value[1] = "arr" -> <<"[">> \o WriteItems(value[2], sp) \o <<"]">>
      [] value[1] = "obj" -> <<"{">> \o WriteProps(value[2], sp) \o <<"}">>

WriteItems(items, sp) ==
    IF Len(items) = 0 THEN <<>>
    ELSE Write(items[1], sp)
            \o (IF Len(items) = 1 THEN <<>>
                ELSE <<",">> \o sp \o WriteItems(Tail(items), sp))

WriteProps(props, sp) ==
    IF Len(props) = 0 THEN <<>>
    ELSE <<QUOTE>> \o props[1][1] \o <<QUOTE, ":">> \o sp \o Write(props[1][2], sp)
            \o (IF Len(props) = 1 THEN <<>>
                ELSE <<",">> \o sp \o WriteProps(Tail(props), sp))

\* '{"a":1}' is Compact of the object a: 1, '{"b": 2, "a": 1}' is Spaced of b: 2, a: 1,
\* and '{\n  "a": 1\n}' is Pretty of a: 1.
Compact(doc) == Write(doc, <<>>)
Spaced(doc) == Write(doc, <<" ">>)
Pretty(doc) == Stringify(doc, 0)

\* Objects over the keys a and b, written in either order.
FlatObjects ==
    {Obj(<<>>)}
        \cup {Obj(<< <<k, Num(n)>> >>) : k \in {KeyA, KeyB}, n \in {1, 2}}
        \cup {Obj(<< <<KeyA, Num(n)>>, <<KeyB, Num(m)>> >>) : n \in {1, 2}, m \in {1, 2}}
        \cup {Obj(<< <<KeyB, Num(m)>>, <<KeyA, Num(n)>> >>) : n \in {1, 2}, m \in {1, 2}}

Arrays == {Arr(<<>>), Arr(<<Num(1)>>), Arr(<<Num(1), Num(2)>>), Arr(<<Num(2), Num(1)>>),
           Arr(<<Null>>)}

Inner == {Obj(<< <<KeyA, Num(1)>>, <<KeyB, Num(2)>> >>),
          Obj(<< <<KeyB, Num(2)>>, <<KeyA, Num(1)>> >>)}

NestedDocuments ==
    {Obj(<< <<KeyA, i>> >>) : i \in Inner}
        \cup {Obj(<< <<KeyA, i>>, <<KeyB, Num(1)>> >>) : i \in Inner}
        \cup {Obj(<< <<KeyB, Num(1)>>, <<KeyA, i>> >>) : i \in Inner}
        \cup {Arr(<<i>>) : i \in Inner}
        \cup {Obj(<< <<KeyA, Arr(<<Num(1), Num(2)>>)>> >>),
              Obj(<< <<KeyA, Arr(<<Num(2), Num(1)>>)>> >>)}

\* Keys that are integer indices, a repeated key, and the key __proto__.
SpecialKeyDocuments ==
    {Obj(<< <<<<"1", "0">>, Num(1)>>, <<<<"9">>, Num(2)>> >>),
     Obj(<< <<<<"9">>, Num(2)>>, <<<<"1", "0">>, Num(1)>> >>),
     Obj(<< <<KeyB, Num(1)>>, <<<<"9">>, Num(2)>> >>),
     Obj(<< <<KeyA, Num(1)>>, <<KeyA, Num(2)>> >>),
     Obj(<< <<ProtoKey, Num(1)>>, <<KeyA, Num(2)>> >>)}

JsonDocuments ==
    {Num(1), Null} \cup FlatObjects \cup Arrays \cup NestedDocuments \cup SpecialKeyDocuments

JsonTexts ==
    {Compact(doc) : doc \in JsonDocuments}
        \cup {Spaced(doc) : doc \in FlatObjects}
        \cup {Pretty(doc) : doc \in FlatObjects \cup NestedDocuments}

BlankTexts == {<<>>, <<" ">>, <<NL, " ", "\t">>}

\* '{bad', '{"a":1,}' and '[1'
MalformedJsonTexts ==
    {<<"{", "b", "a", "d">>,
     <<"{", QUOTE, "a", QUOTE, ":", "1", ",", "}">>,
     <<"[", "1">>}

OpenTag(name) == <<"<">> \o name \o <<">">>
CloseTag(name) == <<"<", "/">> \o name \o <<">">>
EmptyTag(name) == <<"<">> \o name \o <<"/", ">">>
Element(name, content) == OpenTag(name) \o content \o CloseTag(name)

NameRt == <<"r", "t">>
NameAb == <<"a", "b">>
NameCd == <<"c", "d">>

XmlTexts ==
    {Element(NameRt, Element(NameAb, <<"t">>) \o EmptyTag(<<"c">>)),
     Element(NameRt, <<NL, " ", " ">> \o Element(NameAb, <<"t">>) \o <<NL, " ", " ">>
                        \o EmptyTag(<<"c">>) \o <<NL>>),
     Element(NameRt, Element(NameAb, <<"u">>) \o EmptyTag(<<"c">>)),
     Element(NameRt, EmptyTag(<<"c">>) \o Element(NameAb, <<"t">>)),
     Element(NameRt, Element(NameAb, Element(NameCd, <<"t">>))),
     Element(NameRt, Element(NameAb, <<>>)),
     Element(NameRt, EmptyTag(NameAb)),
     Element(<<"a">>, Element(<<"b">>, <<"t">>)),
     Element(NameRt, Element(NameAb, <<"t", NL, "u">>)),
     Element(NameRt, Element(NameAb, <<"t">> \o EmptyTag(NameCd))),
     <<"<", "?", "p", "i", "?", ">">> \o <<"<", "!", "-", "-", "c", "-", "-", ">">>
        \o Element(NameRt, EmptyTag(NameAb))}

\* '<a><b></a>' and '<rt>'
MalformedXmlTexts ==
    {OpenTag(<<"a">>) \o OpenTag(<<"b">>) \o CloseTag(<<"a">>),
     OpenTag(NameRt)}

Texts == JsonTexts \cup BlankTexts \cup MalformedJsonTexts \cup XmlTexts \cup MalformedXmlTexts

\* The third argument: the two formats, and one that is neither.
Modes == {"json", "xml", "yaml"}

---------------------------------------------------------------------------
(* compare run one step at a time.                                         *)

InitCompare ==
    /\ pc = "start"
    /\ call = "compare"
    /\ leftInput \in Texts
    /\ rightInput \in Texts
    /\ mode \in Modes
    /\ cmp = NoCompare
    /\ result = NoResult
    /\ leftText = <<>> /\ rightText = <<>> /\ a = <<>> /\ b = <<>>
    /\ my = NoMyers /\ ld = NoLineDiff
    /\ fmt = NoFormat
    /\ other = NoActivation

diffVars == <<leftText, rightText, a, b, my, ld>>

\* if (!leftInput.trim() || !rightInput.trim()) return { ... };
CompareEnter ==
    /\ pc = "start" /\ call = "compare"
    /\ IF InputMissing(leftInput, rightInput)
       THEN result' = ErrorResult(BothRequired) /\ pc' = "compareReturned"
       ELSE result' = result /\ pc' = "normalizeLeft"
    /\ UNCHANGED <<call, leftInput, rightInput, mode, cmp, diffVars, fmt, other>>

\* Fault variant of NormalizeLeft: a failure on the left does not return;
\* the right side is normalized as well.
NormalizeLeftDeferred ==
    /\ pc = "normalizeLeft"
    /\ \E r \in {Normalize(mode, leftInput)} :
           /\ cmp' = [cmp EXCEPT !.calls = Append(@, "left"), !.leftNormalized = r.text]
           /\ result' = IF r.ok THEN result ELSE ErrorResult(r.msg)
           /\ pc' = "normalizeRight"
    /\ UNCHANGED <<call, leftInput, rightInput, mode, diffVars, fmt, other>>

\* leftNormalized = normalize(leftInput), inside try { } catch (e) { return ... }
NormalizeLeft ==
    /\ pc = "normalizeLeft"
    /\ \E r \in {Normalize(mode, leftInput)} :
           /\ cmp' = [cmp EXCEPT !.calls = Append(@, "left"), !.leftNormalized = r.text]
           /\ IF r.ok
              THEN result' = result /\ pc' = "normalizeRight"
              ELSE result' = ErrorResult(r.msg) /\ pc' = "compareReturned"
    /\ UNCHANGED <<call, leftInput, rightInput, mode, diffVars, fmt, other>>

\* Fault variant of NormalizeRight: the call is outside the try block, so
\* what the normalizer throws leaves compare.
NormalizeRightUncaught ==
    /\ pc = "normalizeRight"
    /\ \E r \in {Normalize(mode, rightInput)} :
           /\ cmp' = [cmp EXCEPT !.calls = Append(@, "right"), !.rightNormalized = r.text]
           /\ pc' = IF r.ok THEN "diff" ELSE "thrown"
    /\ UNCHANGED <<call, leftInput, rightInput, mode, result, diffVars, fmt, other>>

\* rightNormalized = normalize(rightInput), inside the same try
NormalizeRight ==
    /\ pc = "normalizeRight"
    /\ \E r \in {Normalize(mode, rightInput)} :
           /\ cmp' = [cmp EXCEPT !.calls = Append(@, "right"), !.rightNormalized = r.text]
           /\ IF r.ok
              THEN result' = result /\ pc' = "diff"
              ELSE result' = ErrorResult(r.msg) /\ pc' = "compareReturned"
    /\ UNCHANGED <<call, leftInput, rightInput, mode, diffVars, fmt, other>>

\* const equal = ...; const diff = this._lineDiff(...); return { ... };
CompareDiff ==
    /\ pc = "diff"
    /\ \E equal \in {cmp.leftNormalized = cmp.rightNormalized},
          diff \in {LineDiff(cmp.leftNormalized, cmp.rightNormalized)} :
           /\ cmp' = [cmp EXCEPT !.equal = equal, !.diff = diff]
           /\ result' = DiffResult(equal, diff, cmp.leftNormalized, cmp.rightNormalized)
    /\ pc' = "compareReturned"
    /\ UNCHANGED <<call, leftInput, rightInput, mode, diffVars, fmt, other>>

NextCompare ==
    \/ CompareEnter
    \/ NormalizeLeft
    \/ NormalizeRight
    \/ CompareDiff

SpecCompare == InitCompare /\ [][NextCompare]_vars

---------------------------------------------------------------------------
(* Two activations of compare whose steps interleave, each called again     *)
(* after it has returned.                                                   *)

\* (leftInput, rightInput, mode) of the calls: equal and different JSON,
\* XML, a malformed side, a blank side.
Calls ==
    {<<Compact(Obj(<< <<KeyB, Num(2)>>, <<KeyA, Num(1)>> >>)),
       Spaced(Obj(<< <<KeyA, Num(1)>>, <<KeyB, Num(2)>> >>)), "json">>,
     <<Compact(Obj(<< <<KeyA, Num(1)>> >>)),
       Compact(Obj(<< <<KeyA, Num(2)>>, <<KeyB, Num(1)>> >>)), "json">>,
     <<Element(NameRt, Element(NameAb, <<"t">>) \o EmptyTag(<<"c">>)),
       Element(NameRt, Element(NameAb, <<"u">>) \o EmptyTag(<<"c">>)), "xml">>,
     <<Compact(Obj(<< <<KeyA, Num(1)>> >>)), <<"[", "1">>, "json">>,
     <<<<"{", "b", "a", "d">>, Compact(Obj(<< <<KeyA, Num(1)>> >>)), "json">>,
     <<<<" ">>, Element(NameRt, EmptyTag(NameAb)), "xml">>}

InitInterleaved ==
    /\ call = "compare"
    /\ \E c \in Calls :
          /\ pc = "start"
          /\ leftInput = c[1] /\ rightInput = c[2] /\ mode = c[3]
          /\ cmp = NoCompare /\ result = NoResult
    /\ \E c \in Calls : other = Activation(c[1], c[2], c[3])
    /\ leftText = <<>> /\ rightText = <<>> /\ a = <<>> /\ b = <<>>
    /\ my = NoMyers /\ ld = NoLineDiff
    /\ fmt = NoFormat

\* Fault variant of Switch: leftNormalized and rightNormalized are kept in
\* one place for all activations instead of in the locals of each.
SwitchSharingLocals ==
    /\ call = "compare"
    /\ other' = [pc |-> pc, leftInput |-> leftInput, rightInput |-> rightInput,
                 mode |-> mode, cmp |-> cmp, result |-> result]
    /\ pc' = other.pc
    /\ leftInput' = other.leftInput /\ rightInput' = other.rightInput
    /\ mode' = other.mode
    /\ result' = other.result
    /\ UNCHANGED <<call, cmp, diffVars, fmt>>

\* The running activation is suspended between two of its steps and the
\* other one runs: each has its own parameters and its own let/const locals.
Switch ==
    /\ call = "compare"
    /\ other' = [pc |-> pc, leftInput |-> leftInput, rightInput |-> rightInput,
                 mode |-> mode, cmp |-> cmp, result |-> result]
    /\ pc' = other.pc
    /\ leftInput' = other.leftInput /\ rightInput' = other.rightInput
    /\ mode' = other.mode
    /\ cmp' = other.cmp /\ result' = other.result
    /\ UNCHANGED <<call, diffVars, fmt>>

\* compare is called again after it has returned: the object holds no
\* field, so the new activation starts from its parameters alone.
CallAgain ==
    /\ call = "compare" /\ pc = "compareReturned"
    /\ \E c \in Calls :
          /\ leftInput' = c[1] /\ rightInput' = c[2] /\ mode' = c[3]
    /\ pc' = "start"
    /\ cmp' = NoCompare /\ result' = NoResult
    /\ UNCHANGED <<call, diffVars, fmt, other>>

NextInterleaved ==
    \/ CompareEnter
    \/ NormalizeLeft
    \/ NormalizeRight
    \/ CompareDiff
    \/ Switch
    \/ CallAgain

SpecInterleaved == InitInterleaved /\ [][NextInterleaved]_vars

---------------------------------------------------------------------------
(* _formatXml(input, minify), one step per iteration of its loop.           *)

XmlComment == <<"<", "!", "-", "-", "c", "-", "-", ">">>

FormatNames == {<<"a">>, NameRt}

FormatLeaves ==
    {EmptyTag(n) : n \in FormatNames} \cup {Element(n, <<"t">>) : n \in FormatNames}
        \cup {XmlComment}

FormatContents == FormatLeaves \cup {x \o y : x \in FormatLeaves, y \in FormatLeaves}

FormatLevel1 == {Element(n, c) : n \in FormatNames, c \in FormatContents}

FormatLevel2 == {Element(n, c) : n \in FormatNames, c \in FormatLevel1}

\* Well-formed documents: nested elements with names of one and of two
\* characters, text, comments, line breaks inside text and between tags.
FormatInputs ==
    XmlTexts \cup FormatLevel1 \cup FormatLevel2
        \cup {Element(NameRt, Element(NameAb, <<"t", NL, " ", NL, "u">>)),
              Element(NameRt, <<"t">> \o Element(NameAb, <<"u">>) \o <<"v">>)}

InitFormat ==
    /\ pc = "start"
    /\ call = "_formatXml"
    /\ \E input \in FormatInputs, minify \in BOOLEAN :
           fmt = [NoFormat EXCEPT !.input = input, !.minify = minify]
    /\ leftInput = <<>> /\ rightInput = <<>> /\ mode = "xml"
    /\ cmp = NoCompare /\ result = NoResult
    /\ leftText = <<>> /\ rightText = <<>> /\ a = <<>> /\ b = <<>>
    /\ my = NoMyers /\ ld = NoLineDiff
    /\ other = NoActivation

\* Lines 452-462: parse, serialize, collapse; the minified text is returned
\* here, otherwise the text is split into nodes.
FormatEnter ==
    /\ pc = "start" /\ call = "_formatXml"
    /\ \E xml \in {Trim(CollapseBetweenTags(XmlSerialize(DomParse(fmt.input)), 1))} :
          IF fmt.minify
          THEN /\ fmt' = [fmt EXCEPT !.xml = xml, !.result = xml]
               /\ pc' = "formatReturned"
          ELSE /\ fmt' = [fmt EXCEPT !.xml = xml,
                                     !.nodes = SplitLines(BreakBetweenTags(xml, 1)),
                                     !.i = 0, !.pad = 0, !.formatted = <<>>]
               /\ pc' = "indent"
    /\ UNCHANGED <<call, cmpVars, diffVars, other>>

\* One iteration of for (let node of nodes), lines 464-477.
IndentStep ==
    /\ pc = "indent" /\ fmt.i < Len(fmt.nodes)
    /\ \E st \in {IndentNode(fmt.nodes[fmt.i + 1],
                              [pad |-> fmt.pad, formatted |-> fmt.formatted])} :
          fmt' = [fmt EXCEPT !.i = fmt.i + 1, !.pad = st.pad, !.formatted = st.formatted]
    /\ UNCHANGED <<call, pc, cmpVars, diffVars, other>>

\* return formatted.join('\n')
FormatReturn ==
    /\ pc = "indent" /\ fmt.i = Len(fmt.nodes)
    /\ fmt' = [fmt EXCEPT !.result = JoinLines(fmt.formatted)]
    /\ pc' = "formatReturned"
    /\ UNCHANGED <<call, cmpVars, diffVars, other>>

NextFormat ==
    \/ FormatEnter
    \/ IndentStep
    \/ FormatReturn

SpecFormat == InitFormat /\ [][NextFormat]_vars

---------------------------------------------------------------------------
(* Properties of the diff engine.                                          *)

Front(s) == SubSeq(s, 1, Len(s) - 1)

\* The length of a longest common subsequence, by its defining recurrence.
RECURSIVE LcsLength(_, _)
LcsLength(s, t) ==
    IF Len(s) = 0 \/ Len(t) = 0 THEN 0
    ELSE IF s[Len(s)] = t[Len(t)] THEN 1 + LcsLength(Front(s), Front(t))
    ELSE Max(LcsLength(Front(s), t), LcsLength(s, Front(t)))

\* _myers has returned its list, my.lcs.
MyersReturned == pc \in {"myersReturned", "classify", "lineDiffReturned"}

LineDiffReturned == pc = "lineDiffReturned"

MatchedContent(lcs, aa) == [i \in 1..Len(lcs) |-> At(aa, lcs[i].ai)]

\* C1: for non-empty a and b the number of pairs _myers returns is the length
\* of a longest common subsequence of a and b; for a = [A,B,C,D] and
\* b = [A,X,B,D] it returns three pairs whose content is A, B, D in order.
C1_MyersReturnsLcs ==
    (MyersReturned /\ Len(a) > 0 /\ Len(b) > 0) =>
        /\ Len(my.lcs) = LcsLength(a, b)
        /\ (a = TestA /\ b = TestB) =>
              /\ Len(my.lcs) = 3
              /\ MatchedContent(my.lcs, a) = << <<"A">>, <<"B">>, <<"D">> >>

C1_Witness ==
    /\ MyersReturned /\ call = "_myers"
    /\ a = TestA /\ b = TestB
    /\ Len(my.lcs) = 3

\* C2: every returned pair indexes a and b within range and points at equal
\* lines, and the list is strictly increasing in both ai and bi.
C2_PairsValidAndIncreasing ==
    (MyersReturned /\ Len(a) > 0 /\ Len(b) > 0) =>
        /\ \A i \in 1..Len(my.lcs) :
              /\ 0 <= my.lcs[i].ai /\ my.lcs[i].ai < Len(a)
              /\ 0 <= my.lcs[i].bi /\ my.lcs[i].bi < Len(b)
              /\ At(a, my.lcs[i].ai) = At(b, my.lcs[i].bi)
        /\ \A i \in 1..(Len(my.lcs) - 1) :
              /\ my.lcs[i].ai < my.lcs[i + 1].ai
              /\ my.lcs[i].bi < my.lcs[i + 1].bi

C2_Witness ==
    /\ MyersReturned
    /\ Len(my.lcs) = 2
    /\ my.lcs[2].ai > my.lcs[1].ai + 1
    /\ my.lcs[2].bi = my.lcs[1].bi + 1

OfTypes(lines, types) == SelectSeq(lines, LAMBDA e : e.type \in types)

LeftColumn(lines) ==
    LET kept == OfTypes(lines, {"same", "removed", "changed"})
    IN  [i \in 1..Len(kept) |-> kept[i].left]

RightColumn(lines) ==
    LET kept == OfTypes(lines, {"same", "added", "changed"})
    IN  [i \in 1..Len(kept) |-> kept[i].right]

CountOf(lines, type) == Len(OfTypes(lines, {type}))

\* C3: in the output of _lineDiff the left values of the same/removed/changed
\* entries, in output order, are exactly the lines of the left text, and the
\* right values of the same/added/changed entries exactly those of the right.
C3_EveryLineOnce ==
    LineDiffReturned =>
        /\ LeftColumn(ld.lines) = SplitLines(leftText)
        /\ RightColumn(ld.lines) = SplitLines(rightText)

C3_Witness ==
    /\ LineDiffReturned
    /\ CountOf(ld.lines, "same") > 0
    /\ CountOf(ld.lines, "changed") > 0
    /\ CountOf(ld.lines, "removed") > 0

\* C4: same + removed + changed is the left line count, same + added +
\* changed the right line count, the four counts add up to lines.length, and
\* each stats counter is the number of emitted entries of its type.
C4_StatsCoverage ==
    LineDiffReturned =>
        LET same == CountOf(ld.lines, "same")
        IN  /\ same + ld.stats.removed + ld.stats.changed = Len(SplitLines(leftText))
            /\ same + ld.stats.added + ld.stats.changed = Len(SplitLines(rightText))
            /\ ld.stats.added + ld.stats.removed + ld.stats.changed + same = Len(ld.lines)
            /\ ld.stats.added = CountOf(ld.lines, "added")
            /\ ld.stats.removed = CountOf(ld.lines, "removed")
            /\ ld.stats.changed = CountOf(ld.lines, "changed")

C4_Witness ==
    /\ LineDiffReturned
    /\ CountOf(ld.lines, "same") > 0
    /\ ld.stats.added > 0
    /\ ld.stats.changed > 0

RemoveAt(s, p) == SubSeq(s, 1, p - 1) \o SubSeq(s, p + 1, Len(s))

\* C5: when the right lines are the left lines with one line inserted,
\* _lineDiff reports one added entry holding the inserted line, one same
\* entry per left line and no removed or changed entry.
C5_SingleInsertion ==
    LineDiffReturned =>
        \A p \in 1..Len(b) :
            a = RemoveAt(b, p) =>
                /\ ld.stats = [added |-> 1, removed |-> 0, changed |-> 0]
                /\ CountOf(ld.lines, "added") = 1
                /\ OfTypes(ld.lines, {"added"})[1].right = b[p]
                /\ CountOf(ld.lines, "same") = Len(a)
                /\ CountOf(ld.lines, "removed") = 0
                /\ CountOf(ld.lines, "changed") = 0

C5_Witness ==
    /\ LineDiffReturned
    /\ a = TestLeft /\ b = TestRight
    /\ Len(ld.lines) = 4
    /\ ld.lines[1].type = "added" /\ ld.lines[1].right = <<"inserted">>
    /\ \A i \in 2..4 : ld.lines[i].type = "same"

---------------------------------------------------------------------------
(* Properties of compare.                                                  *)

CompareReturned == call = "compare" /\ pc = "compareReturned"

Blank(text) == \A i \in 1..Len(text) : text[i] \in Whitespace

\* The normalizer of the format accepts the document.
Valid(m, text) == Normalize(m, text).ok

AllSame(lines) == \A i \in 1..Len(lines) : lines[i].type = "same"

\* C6: comparing a valid document with itself returns equal = true, a null
\* error and stats of zero, and every line of the diff has type same.
C6_SelfCompare ==
    (CompareReturned /\ leftInput = rightInput /\ Valid(mode, leftInput)) =>
        /\ result.equal
        /\ result.error.isNull
        /\ result.stats = ZeroStats
        /\ AllSame(cmp.diff.lines)
        /\ Len(cmp.diff.lines) = Len(SplitLines(result.leftNormalized))
        /\ result.html = RenderRows(cmp.diff.lines)

C6_Witness ==
    /\ CompareReturned
    /\ mode = "xml"
    /\ leftInput = Element(NameRt, Element(NameAb, <<"t">>) \o EmptyTag(<<"c">>))
    /\ rightInput = leftInput
    /\ result.equal
    /\ Len(cmp.diff.lines) = 4
    /\ AllSame(cmp.diff.lines)

Keys(props) == {props[i][1] : i \in 1..Len(props)}

ValueOf(props, key) == props[CHOOSE i \in 1..Len(props) : props[i][1] = key][2]

\* Two documents that differ at most in the order in which the members of
\* their objects are written; member names are unique within an object.
RECURSIVE SameUpToKeyOrder(_, _)
SameUpToKeyOrder(d, e) ==
    /\ d[1] = e[1]
    /\ CASE d[1] = "arr" ->
                /\ Len(d[2]) = Len(e[2])
                /\ \A i \in 1..Len(d[2]) : SameUpToKeyOrder(d[2][i], e[2][i])
         [] d[1] = "obj" ->
                /\ Cardinality(Keys(d[2])) = Len(d[2])
                /\ Cardinality(Keys(e[2])) = Len(e[2])
                /\ Keys(d[2]) = Keys(e[2])
                /\ \A key \in Keys(d[2]) :
                        SameUpToKeyOrder(ValueOf(d[2], key), ValueOf(e[2], key))
         [] OTHER -> d = e

\* The pairs of texts of such documents, both written in one style.
KeyOrderPairs ==
    LET related == {p \in JsonDocuments \X JsonDocuments : SameUpToKeyOrder(p[1], p[2])}
    IN  {<<Compact(p[1]), Compact(p[2])>> : p \in related}
            \cup {<<Spaced(p[1]), Spaced(p[2])>> : p \in related}
            \cup {<<Pretty(p[1]), Pretty(p[2])>> : p \in related}

\* C7: in mode json, two documents that differ only in the order of object
\* keys, at any depth, have the same normalized text, and compare returns
\* equal = true with stats of zero for them.
C7_KeyOrderInvariance ==
    (CompareReturned /\ mode = "json" /\ <<leftInput, rightInput>> \in KeyOrderPairs) =>
        /\ result.error.isNull
        /\ result.leftNormalized = result.rightNormalized
        /\ result.equal
        /\ result.stats = ZeroStats

C7_Witness ==
    /\ CompareReturned
    /\ mode = "json"
    /\ leftInput = Compact(Obj(<< <<KeyB, Num(1)>>,
                                  <<KeyA, Obj(<< <<KeyB, Num(2)>>, <<KeyA, Num(1)>> >>)>> >>))
    /\ rightInput = Compact(Obj(<< <<KeyA, Obj(<< <<KeyA, Num(1)>>, <<KeyB, Num(2)>> >>)>>,
                                   <<KeyB, Num(1)>> >>))
    /\ <<leftInput, rightInput>> \in KeyOrderPairs
    /\ result.equal
    /\ result.leftNormalized = Pretty(Obj(<< <<KeyA, Obj(<< <<KeyA, Num(1)>>,
                                                           <<KeyB, Num(2)>> >>)>>,
                                              <<KeyB, Num(1)>> >>))

\* C8: for every result of compare without an error, equal is true exactly
\* when the two normalized texts are the same text, and exactly when the
\* three counters of stats are all zero.
C8_EqualIffNoDifference ==
    (CompareReturned /\ result.error.isNull) =>
        /\ result.hasNormalized
        /\ result.equal <=> (result.leftNormalized = result.rightNormalized)
        /\ result.equal <=> (result.stats = ZeroStats)
        /\ result.stats.added >= 0 /\ result.stats.removed >= 0 /\ result.stats.changed >= 0

C8_Witness ==
    /\ CompareReturned
    /\ result.error.isNull
    /\ ~result.equal
    /\ result.leftNormalized # result.rightNormalized
    /\ result.stats.removed > 0
    /\ result.stats.added = 0 /\ result.stats.changed = 0

\* C9: when the left or the right input is empty or all whitespace, compare
\* returns equal = false, the error Both inputs are required, an empty diff
\* and stats of zero, and calls no normalizer, also when the other input is
\* malformed.
C9_BlankInput ==
    (CompareReturned /\ (Blank(leftInput) \/ Blank(rightInput))) =>
        /\ ~result.equal
        /\ result.error = ErrorMessage(<<"Both inputs are required">>)
        /\ result.html = <<>>
        /\ result.stats = ZeroStats
        /\ ~result.hasNormalized
        /\ cmp.calls = <<>>
        /\ cmp.diff.lines = <<>>

C9_Witness ==
    /\ CompareReturned
    /\ leftInput \in MalformedJsonTexts
    /\ rightInput = <<NL, " ", "\t">>
    /\ mode = "json"
    /\ result.error = ErrorMessage(<<"Both inputs are required">>)
    /\ cmp.calls = <<>>

\* The message of the first normalizer that throws, left before right.
FirstFailure(m, left, right) ==
    IF ~Normalize(m, left).ok THEN Normalize(m, left).msg ELSE Normalize(m, right).msg

\* C10: when the normalizer fails on either non-blank input, compare returns
\* equal = false, that failure's message as a non-null error, an empty diff,
\* stats of zero and no normalized text, also when the other input was
\* normalized successfully.
C10_NormalizeFailure ==
    (/\ CompareReturned
     /\ ~Blank(leftInput) /\ ~Blank(rightInput)
     /\ (~Valid(mode, leftInput) \/ ~Valid(mode, rightInput))) =>
        /\ ~result.equal
        /\ ~result.error.isNull
        /\ Len(result.error.message) > 0
        /\ result.error.message = FirstFailure(mode, leftInput, rightInput)
        /\ result.html = <<>>
        /\ result.stats = ZeroStats
        /\ ~result.hasNormalized
        /\ result.leftNormalized = <<>> /\ result.rightNormalized = <<>>
        /\ cmp.diff.lines = <<>>

C10_Witness ==
    /\ CompareReturned
    /\ mode = "json"
    /\ leftInput = Compact(Obj(<< <<KeyA, Num(1)>> >>))
    /\ rightInput = <<"{", "b", "a", "d">>
    /\ cmp.calls = <<"left", "right">>
    /\ Len(cmp.leftNormalized) > 0
    /\ ~result.error.isNull
    /\ ~result.hasNormalized

\* C11: when the left normalizer fails the error is its message and the
\* right normalizer is never called, also when the right input is malformed
\* too; the message of a failure on the right is returned only after the
\* left input was normalized successfully.
C11_FirstFailureSurfaced ==
    (CompareReturned /\ ~Blank(leftInput) /\ ~Blank(rightInput)) =>
        /\ ~Valid(mode, leftInput) =>
                /\ cmp.calls = <<"left">>
                /\ result.error = ErrorMessage(Normalize(mode, leftInput).msg)
        /\ (Valid(mode, leftInput) /\ ~Valid(mode, rightInput)) =>
                /\ cmp.calls = <<"left", "right">>
                /\ result.error = ErrorMessage(Normalize(mode, rightInput).msg)
        /\ (~result.error.isNull /\ Len(cmp.calls) = 2) => Valid(mode, leftInput)

C11_Witness ==
    /\ CompareReturned
    /\ mode = "json"
    /\ leftInput = <<"{", "b", "a", "d">>
    /\ rightInput = <<"[", "1">>
    /\ Normalize(mode, leftInput).msg # Normalize(mode, rightInput).msg
    /\ result.error = ErrorMessage(Normalize(mode, leftInput).msg)
    /\ cmp.calls = <<"left">>

\* The input of the given side was handed to the normalizer and it threw.
Failed(side) ==
    /\ \E i \in 1..Len(cmp.calls) : cmp.calls[i] = side
    /\ ~Valid(mode, IF side = "left" THEN leftInput ELSE rightInput)

\* C12: for every pair of texts and every mode, no step of compare is left
\* by an exception: compare is at one of its own steps or has returned a
\* result object, and whatever a normalizer threw has been caught and
\* returned as the error of the result.
C12_NoExceptionEscapes ==
    /\ pc \in {"start", "normalizeLeft", "normalizeRight", "diff", "compareReturned"}
    /\ (Failed("left") \/ Failed("right")) =>
            /\ pc = "compareReturned"
            /\ ~result.error.isNull
            /\ Len(result.error.message) > 0
            /\ ~result.equal
    /\ pc = "compareReturned" => (result.error.isNull <=> result.hasNormalized)

C12_Witness ==
    /\ CompareReturned
    /\ mode = "xml"
    /\ leftInput = Element(NameRt, EmptyTag(NameAb))
    /\ rightInput = OpenTag(<<"a">>) \o OpenTag(<<"b">>) \o CloseTag(<<"a">>)
    /\ Failed("right") /\ ~Failed("left")
    /\ ~result.error.isNull

\* C13: when both inputs are normalized successfully compare returns error
\* null, the normalized text of each side, and the stats of _lineDiff on
\* those two texts, also when the two texts are equal.
C13_FullResult ==
    (/\ CompareReturned
     /\ ~Blank(leftInput) /\ ~Blank(rightInput)
     /\ Valid(mode, leftInput) /\ Valid(mode, rightInput)) =>
        /\ result.error.isNull
        /\ result.hasNormalized
        /\ result.leftNormalized = Normalize(mode, leftInput).text
        /\ result.rightNormalized = Normalize(mode, rightInput).text
        /\ result.stats = LineDiff(Normalize(mode, leftInput).text,
                                   Normalize(mode, rightInput).text).stats
        /\ result.html = RenderDiff(LineDiff(result.leftNormalized, result.rightNormalized))
        /\ result.equal = (result.leftNormalized = result.rightNormalized)

C13_Witness ==
    /\ CompareReturned
    /\ mode = "json"
    /\ leftInput = Spaced(Obj(<< <<KeyB, Num(2)>>, <<KeyA, Num(1)>> >>))
    /\ rightInput = Spaced(Obj(<< <<KeyA, Num(1)>>, <<KeyB, Num(2)>> >>))
    /\ result.equal
    /\ result.hasNormalized
    /\ result.leftNormalized = Pretty(Obj(<< <<KeyA, Num(1)>>, <<KeyB, Num(2)>> >>))
    /\ result.rightNormalized = result.leftNormalized

Called(side) == \E i \in 1..Len(cmp.calls) : cmp.calls[i] = side

\* C14: the text a normalizer returns is a fixed point of that normalizer,
\* for _normalizeJson and for _normalizeXml.
C14_NormalizeIdempotent ==
    /\ (Called("left") /\ Valid(mode, leftInput)) =>
            Normalize(mode, cmp.leftNormalized) = Returned(cmp.leftNormalized)
    /\ (Called("right") /\ Valid(mode, rightInput)) =>
            Normalize(mode, cmp.rightNormalized) = Returned(cmp.rightNormalized)

C14_Witness ==
    /\ CompareReturned
    /\ mode = "xml"
    /\ leftInput = Element(NameRt, Element(NameAb, <<"t", NL, "u">>))
    /\ leftInput # cmp.leftNormalized
    /\ Len(SplitLines(cmp.leftNormalized)) = 4
    /\ Normalize(mode, cmp.leftNormalized) = Returned(cmp.leftNormalized)
    /\ rightInput = leftInput

\* C15: the i-th entry _lineDiff emits carries the number i, whatever its
\* type and whatever the positions of its lines in the two texts.
C15_OrdinalIsPosition ==
    (call = "_lineDiff" /\ pc \in {"classify", "lineDiffReturned"}) =>
        /\ ld.lineNum = Len(ld.lines)
        /\ \A i \in 1..Len(ld.lines) : ld.lines[i].line = i

C15_Witness ==
    /\ LineDiffReturned
    /\ Len(ld.lines) = 4
    /\ Len(a) = 3 /\ Len(b) = 3
    /\ ld.lines[1].type = "added"
    /\ ld.lines[2].type = "same" /\ ld.lines[2].line = 2
    /\ ld.lines[4].type = "removed" /\ ld.lines[4].line = 4

\* The member names of an object in the order they are enumerated and
\* written by JSON.stringify.
KeySeq(props) == [i \in 1..Len(props) |-> props[i][1]]

Ascending(keys) == \A i \in 1..(Len(keys) - 1) : StringLess(keys[i], keys[i + 1])

\* e is d with the keys of every object in ascending lexicographic order,
\* the elements of every array in their order in d, and every other value
\* as it is in d.
RECURSIVE SortedCopy(_, _)
SortedCopy(d, e) ==
    /\ d[1] = e[1]
    /\ CASE d[1] = "arr" ->
                /\ Len(d[2]) = Len(e[2])
                /\ \A i \in 1..Len(d[2]) : SortedCopy(d[2][i], e[2][i])
         [] d[1] = "obj" ->
                /\ Ascending(KeySeq(e[2]))
                /\ \A key \in Keys(e[2]) :
                        /\ key \in Keys(d[2])
                        /\ SortedCopy(PropGet(d[2], key), ValueOf(e[2], key))
         [] OTHER -> d = e

\* C16: the text _normalizeJson returns is the text of the parsed document
\* with the keys of every object, at every depth, in ascending lexicographic
\* order, arrays in source order and all other values unchanged.
C16_KeysAscending ==
    (mode = "json" /\ Called("left") /\ Valid(mode, leftInput)) =>
        LET parsed == JsonParse(leftInput).val
            sorted == SortObject(parsed)
        IN  /\ cmp.leftNormalized = Stringify(sorted, 0)
            /\ SortedCopy(parsed, sorted)

Min(m, n) == IF m <= n THEN m ELSE n

\* Gap g lies after the g-th pair of the matching and before the next one;
\* gap 0 lies before the first pair, the last gap after the last pair.
GapStart(g) ==
    IF g = 0 THEN [ai |-> 0, bi |-> 0]
    ELSE [ai |-> my.lcs[g].ai + 1, bi |-> my.lcs[g].bi + 1]

GapEnd(g) ==
    IF g = Len(my.lcs) THEN [ai |-> Len(a), bi |-> Len(b)] ELSE my.lcs[g + 1]

Unmatched(g) ==
    [left |-> GapEnd(g).ai - GapStart(g).ai, right |-> GapEnd(g).bi - GapStart(g).bi]

\* What the claim prescribes for gap g: the k-th unmatched left line paired
\* with the k-th unmatched right line while both exist, then the rest of
\* the longer side.
GapEntries(g) ==
    LET u == Unmatched(g).left
        w == Unmatched(g).right
        s == GapStart(g)
    IN  [k \in 1..Max(u, w) |->
            IF k <= Min(u, w)
            THEN [type |-> "changed", left |-> At(a, s.ai + k - 1),
                                       right |-> At(b, s.bi + k - 1)]
            ELSE IF u > w
            THEN [type |-> "removed", left |-> At(a, s.ai + k - 1), right |-> <<>>]
            ELSE [type |-> "added", left |-> <<>>, right |-> At(b, s.bi + k - 1)]]

\* The entries of gap g and of everything after it.
RECURSIVE EntriesFrom(_)
EntriesFrom(g) ==
    IF g = Len(my.lcs) THEN GapEntries(g)
    ELSE GapEntries(g)
            \o << [type |-> "same", left |-> At(a, my.lcs[g + 1].ai),
                                     right |-> At(b, my.lcs[g + 1].bi)] >>
            \o EntriesFrom(g + 1)

WithoutNumber(lines) ==
    [i \in 1..Len(lines) |->
        [type |-> lines[i].type, left |-> lines[i].left, right |-> lines[i].right]]

\* C17: in every gap of the matching with u unmatched left lines and w
\* unmatched right lines, _lineDiff emits min(u, w) changed entries pairing
\* the lines in order, then u - min(u, w) removed or w - min(u, w) added
\* entries, so no gap holds both a removed and an added entry.
C17_GapClassification ==
    LineDiffReturned => WithoutNumber(ld.lines) = EntriesFrom(0)

C17_Witness ==
    /\ LineDiffReturned
    /\ Len(my.lcs) = 1
    /\ Unmatched(0) = [left |-> 2, right |-> 1]
    /\ Unmatched(1) = [left |-> 0, right |-> 1]
    /\ ld.lines[1].type = "changed"
    /\ ld.lines[2].type = "removed"
    /\ ld.lines[3].type = "same"
    /\ ld.lines[4].type = "added"

\* C18: the same entries of _lineDiff are the pairs of the matching, one
\* entry per pair and in the order of the pairs: the k-th same entry holds
\* the left and the right line of the k-th pair, and the two are equal.
C18_SameEntriesAreThePairs ==
    LineDiffReturned =>
        LET same == OfTypes(ld.lines, {"same"})
        IN  /\ Len(same) = Len(my.lcs)
            /\ \A k \in 1..Len(same) :
                    /\ same[k].left = At(a, my.lcs[k].ai)
                    /\ same[k].right = At(b, my.lcs[k].bi)
                    /\ same[k].left = same[k].right

C18_Witness ==
    /\ LineDiffReturned
    /\ Len(my.lcs) = 2
    /\ my.lcs[1].ai # my.lcs[1].bi
    /\ CountOf(ld.lines, "same") = 2
    /\ ld.stats.removed > 0

\* The forward pass of _myers has been left.
ForwardLeft ==
    /\ ~MyersTrivial(my)
    /\ \/ pc = "forward" /\ ForwardDone(my)
       \/ pc \in {"backtrack", "myersReturned", "classify", "lineDiffReturned"}

\* C19: the forward pass stops through its stop condition, at the edit
\* distance d = N + M - 2 * (length of a longest common subsequence), on the
\* diagonal k = N - M at the point (N, M), with d + 1 snapshots recorded.
C19_ForwardStopsAtEditDistance ==
    ForwardLeft =>
        /\ my.hit
        /\ my.d = my.N + my.M - 2 * LcsLength(a, b)
        /\ my.k = my.N - my.M
        /\ my.fx >= my.N /\ my.fy >= my.M
        /\ my.fx - my.fy = my.k
        /\ Len(my.trace) = my.d + 1

C19_Witness ==
    /\ pc = "forward" /\ ForwardDone(my)
    /\ my.N = 3 /\ my.M = 2
    /\ my.hit
    /\ my.d = 3
    /\ my.k = 1
    /\ Len(my.trace) = 4

\* The loops stay within their bounds: the forward loop never passes
\* d = N + M and is left only by its stop condition, the backtrack loop
\* counts down over the snapshots, and the cursor loop has emitted one entry
\* per iteration, at most N + M of them.
LoopsBounded ==
    /\ pc = "forward" =>
            /\ my.d <= my.MAX
            /\ ForwardDone(my) => my.hit
            /\ Len(my.trace) = IF my.hit THEN my.d + 1 ELSE my.d
    /\ pc = "backtrack" =>
            /\ my.bd >= -1 /\ my.bd < Len(my.trace)
            /\ BacktrackDone(my) => my.bd = -1
    /\ pc \in {"classify", "lineDiffReturned"} =>
            /\ ld.ai <= Len(a) /\ ld.bi <= Len(b)
            /\ Len(ld.lines) <= ld.ai + ld.bi
            /\ Len(ld.lines) <= Len(a) + Len(b)

\* One iteration of a loop moves it towards its exit: the forward loop
\* raises d by one or stops, the backtrack loop goes back one snapshot, the
\* cursor loop emits exactly one entry and advances a cursor.
LoopsProgress ==
    /\ (pc = "forward" /\ pc' = "forward") =>
            \/ my'.hit /\ my'.d = my.d
            \/ ~my'.hit /\ my'.d = my.d + 1
    /\ (pc = "forward" /\ pc' = "backtrack") => my'.bd = Len(my.trace) - 1
    /\ (pc = "backtrack" /\ pc' = "backtrack") => my'.bd = my.bd - 1
    /\ (pc = "classify" /\ pc' = "classify") =>
            /\ Len(ld'.lines) = Len(ld.lines) + 1
            /\ ld'.ai >= ld.ai /\ ld'.bi >= ld.bi
            /\ ld'.ai + ld'.bi > ld.ai + ld.bi

\* C20: for non-empty a and b the forward loop of _myers is left through
\* its stop condition at some d <= N + M, the backtrack loop runs once per
\* recorded snapshot, and the cursor loop of _lineDiff ends after at most
\* N + M iterations, each advancing a cursor and emitting one entry.
C20_LoopsTerminate == []LoopsBounded /\ [][LoopsProgress]_vars

C20_Witness ==
    /\ LineDiffReturned
    /\ Len(a) = 3 /\ Len(b) = 3
    /\ my.hit /\ my.d = 6
    /\ Len(my.trace) = 7
    /\ my.bd = -1
    /\ Len(ld.lines) = 3
    /\ ld.ai = 3 /\ ld.bi = 3

\* The positions of the next pair of the matching, or the lengths of the
\* arrays after the last pair.
NextPairA == IF ld.li < Len(my.lcs) THEN my.lcs[ld.li + 1].ai ELSE Len(a)
NextPairB == IF ld.li < Len(my.lcs) THEN my.lcs[ld.li + 1].bi ELSE Len(b)

\* Both cursors stand on unmatched lines before the next pair.
OnUnmatchedPair ==
    /\ pc = "classify" /\ call = "_lineDiff"
    /\ ld.ai < NextPairA /\ ld.bi < NextPairB

\* C25: every changed entry of _lineDiff has different left and right texts,
\* and whenever both cursors stand on unmatched lines before the next pair
\* of the matching of _myers those two lines differ, so the test
\* a[ai] !== b[bi] never sends such a pair to the added branch.
C25_ChangedSidesDiffer ==
    /\ \A i \in 1..Len(ld.lines) :
          ld.lines[i].type = "changed" => ld.lines[i].left # ld.lines[i].right
    /\ OnUnmatchedPair =>
          /\ a[ld.ai + 1] # b[ld.bi + 1]
          /\ LeftUnmatched(a, b, my.lcs, ld)
          /\ ClassifyIter(a, b, my.lcs, ld).stats.changed = ld.stats.changed + 1

\* Two unmatched lines before a later pair have been paired as changed.
C25_Witness ==
    /\ pc = "classify" /\ call = "_lineDiff"
    /\ Len(my.lcs) = 1 /\ ld.li = 0
    /\ my.lcs[1].ai >= 1 /\ my.lcs[1].bi >= 1
    /\ Len(ld.lines) = 1 /\ ld.lines[1].type = "changed"

\* C26: in every result of _lineDiff, removed + added + 2 * changed equals
\* N + M - 2 * (length of a longest common subsequence of the two line
\* arrays), which is the edit distance d the forward pass of _myers stopped
\* at.
C26_StatsAreMinimalEdit ==
    (LineDiffReturned /\ call = "_lineDiff") =>
        /\ ld.stats.removed + ld.stats.added + 2 * ld.stats.changed
              = Len(a) + Len(b) - 2 * LcsLength(a, b)
        /\ ld.stats.removed + ld.stats.added + 2 * ld.stats.changed = my.d

\* A result with a changed, an added and a same entry: 1 + 2 * 1 = 2 + 3 - 2 * 1.
C26_Witness ==
    /\ LineDiffReturned /\ call = "_lineDiff"
    /\ Len(a) = 2 /\ Len(b) = 3
    /\ LcsLength(a, b) = 1
    /\ ld.stats = [added |-> 1, removed |-> 0, changed |-> 1]

\* C28: at the top of every iteration of the cursor loop ai <= |a|,
\* bi <= |b| and, while a pair of the matching is unconsumed, ai and bi are
\* not past that pair; when the loop has ended li = lcs.length, ai = |a| and
\* bi = |b|.
C28_CursorsWithinNextPair ==
    (call = "_lineDiff" /\ pc \in {"classify", "lineDiffReturned"}) =>
        /\ ld.ai <= Len(a) /\ ld.bi <= Len(b)
        /\ ld.li <= Len(my.lcs)
        /\ ld.li < Len(my.lcs) =>
              ld.ai <= my.lcs[ld.li + 1].ai /\ ld.bi <= my.lcs[ld.li + 1].bi
        /\ pc = "lineDiffReturned" =>
              ld.li = Len(my.lcs) /\ ld.ai = Len(a) /\ ld.bi = Len(b)

\* After one pair was consumed the left cursor stands on the second pair
\* while the right cursor is still before it.
C28_Witness ==
    /\ call = "_lineDiff" /\ pc = "classify"
    /\ Len(my.lcs) = 2 /\ ld.li = 1
    /\ ld.ai = my.lcs[2].ai /\ ld.bi < my.lcs[2].bi

\* The number of pairs the diagonal walk of a backtrack iteration pushes.
Walked == Len(my'.lcs) - Len(my.lcs)

\* C29: in every iteration of the backtrack at a level d > 0 the recovered
\* point satisfies 0 <= prevX <= x and 0 <= prevY <= y, and the point the
\* diagonal walk stops at is one non-diagonal move away from it: one step
\* right or one step down; in the iteration at d = 0 the walk stops at
\* (0, 0).
C29_BacktrackMoves ==
    [][(pc = "backtrack" /\ my.bd >= 0) =>
        IF my.bd > 0
        THEN /\ 0 <= my'.x /\ my'.x <= my.x
             /\ 0 <= my'.y /\ my'.y <= my.y
             /\ \/ my.x - Walked = my'.x + 1 /\ my.y - Walked = my'.y
                \/ my.x - Walked = my'.x /\ my.y - Walked = my'.y + 1
        ELSE my.x - Walked = 0 /\ my.y - Walked = 0]_vars

\* The backtrack has reached level 0 after iterations at higher levels, one
\* of which walked a diagonal.
C29_Witness ==
    /\ pc = "backtrack" /\ my.bd = 0
    /\ Len(my.trace) >= 3
    /\ Len(my.lcs) >= 1
    /\ my.x >= 1

---------------------------------------------------------------------------
(* Properties of the XML re-indent pass.                                    *)

FormatReturned == pc = "formatReturned" /\ call = "_formatXml"

\* The fragment the loop took last, trimmed.
LastNode == Trim(fmt.nodes[fmt.i])

CountChar(t, c) == Cardinality({i \in 1..Len(t) : t[i] = c})

\* A fragment that is one tag: it starts with <, ends with > and holds no
\* other < or >.
SingleTag(node) ==
    /\ Len(node) >= 3
    /\ node[1] = "<" /\ node[Len(node)] = ">"
    /\ CountChar(node, "<") = 1 /\ CountChar(node, ">") = 1

\* </...>
ClosingTagFragment(node) == SingleTag(node) /\ node[2] = "/"

Spaces(n) == [i \in 1..n |-> " "]

\* The counter a fragment is printed at.
PrintCounter(node, counter) ==
    IF ClosingTagFragment(node)
    THEN (IF counter - 1 < 0 THEN 0 ELSE counter - 1)
    ELSE counter

\* C21: in the re-indent pass the counter is never negative, and every
\* iteration on a non-empty fragment prints that fragment prefixed by two
\* spaces times the counter, the counter being first decremented, not below
\* 0, when the fragment is a closing tag.
C21_CloseDecrementsBeforePrint ==
    /\ [](fmt.pad >= 0)
    /\ [][(pc = "indent" /\ fmt'.i = fmt.i + 1 /\ Len(Trim(fmt.nodes[fmt.i + 1])) > 0) =>
            LET node == Trim(fmt.nodes[fmt.i + 1])
                counter == PrintCounter(node, fmt.pad)
            IN  /\ fmt'.formatted = Append(fmt.formatted, Spaces(2 * counter) \o node)
                /\ ClosingTagFragment(node) => fmt'.pad = counter]_vars

\* A closing tag has just been printed one level in, after a decrement from 2.
C21_Witness ==
    /\ pc = "indent" /\ fmt.i >= 1
    /\ ClosingTagFragment(LastNode)
    /\ fmt.pad = 1
    /\ fmt.formatted[Len(fmt.formatted)] = Spaces(2) \o LastNode

\* An opening tag that does not end in /> and does not start with <! or <?.
OpeningTagFragment(node) ==
    /\ SingleTag(node)
    /\ node[2] \notin {"!", "?", "/"}
    /\ node[Len(node) - 1] # "/"

\* C22: every iteration on an opening tag that is neither self-closing nor a
\* declaration or comment leaves the counter one above the value the tag was
\* printed at, whatever the length of the tag name; an iteration on any other
\* single tag leaves the counter at the value the tag was printed at.
C22_OpeningTagIncrements ==
    [][(pc = "indent" /\ fmt'.i = fmt.i + 1 /\ SingleTag(Trim(fmt.nodes[fmt.i + 1]))) =>
        LET node == Trim(fmt.nodes[fmt.i + 1])
            counter == PrintCounter(node, fmt.pad)
        IN  fmt'.pad = IF OpeningTagFragment(node) THEN counter + 1 ELSE counter]_vars

---------------------------------------------------------------------------
(* Properties of compare as a whole.                                        *)

SupportedFormats == {"json", "xml"}

\* C23: a call of compare with a format other than "json" or "xml" fails
\* fast: no normalizer is run on its inputs, and what it returns is an error,
\* never a comparison made as if the format were a supported one.
C23_UnsupportedFormatFailsFast ==
    mode \notin SupportedFormats =>
        /\ cmp.calls = <<>>
        /\ CompareReturned => ~result.error.isNull

\* What compare returns for (left, right, m) when it is the only call made.
Alone(left, right, m) ==
    IF Blank(left) \/ Blank(right) THEN ErrorResult(BothRequired)
    ELSE IF ~Valid(m, left) \/ ~Valid(m, right)
    THEN ErrorResult(FirstFailure(m, left, right))
    ELSE DiffResult(Normalize(m, left).text = Normalize(m, right).text,
                    LineDiff(Normalize(m, left).text, Normalize(m, right).text),
                    Normalize(m, left).text, Normalize(m, right).text)

\* The parameters of the two activations.
Arguments ==
    {<<leftInput, rightInput, mode>>, <<other.leftInput, other.rightInput, other.mode>>}

Fragments == [i \in 1..Len(fmt.nodes) |-> Trim(fmt.nodes[i])]

\* An element without child elements on one line: <n>text</n>.
LeafElement(node) ==
    /\ Len(node) >= 7
    /\ node[1] = "<" /\ node[2] \notin {"/", "!", "?"} /\ node[Len(node)] = ">"
    /\ CountChar(node, "<") = 2 /\ CountChar(node, ">") = 2
    /\ \E j \in 3..(Len(node) - 1) : node[j] = "<" /\ node[j + 1] = "/"

\* Opening-tag fragments minus closing-tag fragments among the first n.
RECURSIVE OpenAfter(_, _)
OpenAfter(frs, n) ==
    IF n = 0 THEN 0
    ELSE OpenAfter(frs, n - 1)
            + (IF OpeningTagFragment(frs[n]) THEN 1 ELSE 0)
            - (IF ClosingTagFragment(frs[n]) THEN 1 ELSE 0)

\* Every fragment is one tag or one leaf element, every closing tag closes
\* an open one, and all are closed at the end.
ProperlyNested(frs) ==
    /\ \A i \in 1..Len(frs) : SingleTag(frs[i]) \/ LeafElement(frs[i])
    /\ \A i \in 1..Len(frs) : OpenAfter(frs, i) >= 0
    /\ OpenAfter(frs, Len(frs)) = 0

\* The nesting depth of fragment i: a closing tag is at the depth of its
\* opening tag, any other fragment one below its parent's opening tag.
NestingLevel(frs, i) ==
    IF ClosingTagFragment(frs[i]) THEN OpenAfter(frs, i) ELSE OpenAfter(frs, i - 1)

\* C27: when the fragments of a well-formed document are properly nested,
\* the pass prints every fragment at its nesting depth, so a closing tag at
\* the indentation of its opening tag and a child one level below its
\* parent's opening tag, and it ends with the counter at 0.
C27_NestingIndentation ==
    (FormatReturned /\ ~fmt.minify /\ ProperlyNested(Fragments)) =>
        /\ fmt.pad = 0
        /\ Len(fmt.formatted) = Len(Fragments)
        /\ \A i \in 1..Len(Fragments) :
              fmt.formatted[i] = Spaces(2 * NestingLevel(Fragments, i)) \o Fragments[i]

===========================================================================
